---- MODULE Spec2Model ----
(***************************************************************************)
(* TrafficFlow: the tick scheduler (simulation/core.py), the two-phase     *)
(* traffic light (signals/lights.py), the IDM vehicle and the vehicle      *)
(* spawner (agents/vehicle.py), the threaded runtime (server/runtime.py)   *)
(* and the router (pathfinding/router.py).  Router weights are in          *)
(* thousandths of a second, its congestion threshold in hundredths.        *)
(*                                                                         *)
(* Units.  The Python code works on floats.  Here every physical quantity  *)
(* is an integer number of tenths: lengths and positions in 0.1 m,         *)
(* velocities in 0.1 m/s, accelerations in 0.1 m/s^2, times in 0.1 s and   *)
(* the patience factor in tenths.  The threshold 0.1 of the code is 1.     *)
(***************************************************************************)
EXTENDS Integers, Sequences, FiniteSets, TLC

VARIABLES
    \* ---- SimulationEngine ----
    tick,          \* SimulationEngine.tick
    agents,        \* state["agents"]: name -> interval (the callback is the recorder below)
    schedule,      \* SimulationEngine._schedule: tick -> sequence of names
    registered,    \* history: the register_agent calls, in order
    invocations,   \* history: the callback invocations, in order
    lastAdvance,   \* history: whether the latest advance_tick was left by an exception, and where
    \* ---- TrafficLight ----
    light,         \* [phase, elapsed] of one TrafficLight
    durations,     \* its phase_durations
    lightHist,     \* history: the latest TrafficLight.tick call, [dt, before] (dt = -1: none
                   \* yet), and since: the dt's added up since the phase last changed
    \* ---- Vehicle ----
    veh,           \* one Vehicle
    stepHist,      \* history: the latest Vehicle.step call and its _advance_edge calls
    consec,        \* history: number of consecutive stationary steps, counted from the outcomes
    \* ---- VehicleSpawner, TrafficSignalController, runtime ----
    network,             \* state["network"]: [nodes, edges]
    spawner,             \* VehicleSpawner settings and _tick_counter
    vehicles,            \* VehicleSpawner.vehicles, in dict order
    last_queue_lengths,  \* VehicleSpawner.last_queue_lengths
    signals,             \* state["signals"]: the TrafficSignalController, or none
    closed_edges,        \* state["closed_edges"]
    fleetHist,           \* history: what the latest call on the fleet did; where
                         \* _build_route is followed pass by pass, the call in progress
    \* ---- SimulationRuntime ----
    runtime,             \* _lock, active_preset, each thread's position, and the history
                         \* of what each caller's toggle did, of what was returned and of
                         \* the latest access
    \* ---- Router ----
    router,              \* the Router: its settings, _edge_loads, _blocked_edges, _vehicles
    routerHist           \* history: the latest call on the router, the router before
                         \* it, what it returned or that it raised

engineVars == <<tick, agents, schedule, registered, invocations, lastAdvance>>
lightVars == <<light, durations, lightHist>>
vehicleVars == <<veh, stepHist, consec>>
fleetVars == <<network, spawner, vehicles, last_queue_lengths, signals, closed_edges, fleetHist>>
runtimeVars == <<runtime>>
routerVars == <<router, routerHist>>
vars == <<engineVars, lightVars, vehicleVars, fleetVars, runtimeVars, routerVars>>

Max(a, b) == IF a >= b THEN a ELSE b
\* the element of a one-element set; {F(x) : x \in {e}} evaluates e once, so
\* Only({F(x) : x \in {e}}) is F(e) with e computed a single time
Only(S) == CHOOSE x \in S : TRUE
Min(a, b) == IF a <= b THEN a ELSE b

\* dict.get(k, default) and d[k] = val
Get(d, k, default) == IF k \in DOMAIN d THEN d[k] ELSE default
Put(d, k, val) == [x \in DOMAIN d \cup {k} |-> IF x = k THEN val ELSE d[x]]
\* the empty dict {}
EmptyDict == [k \in {} |-> 0]
\* Python's None where a coordinate is expected (coordinates are never negative)
None == -1

(***************************************************************************)
(* SimulationEngine                                                        *)
(***************************************************************************)
MaxTick == 5
MaxAgents == 2
Names == {"a", "b"}
Starts == {0, 1, 2}
Intervals == {0, 1, 2}

\* dict.setdefault(key, []).append(name)
ScheduleAppend(sched, key, name) ==
    IF key \in DOMAIN sched
    THEN [sched EXCEPT ![key] = Append(@, name)]
    ELSE [k \in DOMAIN sched \cup {key} |-> IF k = key THEN <<name>> ELSE sched[k]]

\* dict.pop(key, []): the value, and the dict without the key
SchedulePopValue(sched, key) == IF key \in DOMAIN sched THEN sched[key] ELSE <<>>
SchedulePopRest(sched, key) == [k \in DOMAIN sched \ {key} |-> sched[k]]

\* lastAdvance while no advance_tick has been left by an exception
\* (run: what the latest call of run did, when it was the latest call)
NoRun == [called |-> FALSE, from |-> 0, limit |-> 0, calls |-> 0, before |-> 0]
NoRaise == [raised |-> FALSE, at |-> 0, due |-> <<>>, upto |-> 0, before |-> 0, registered |-> 0,
            run |-> NoRun]

EngineInit ==
    /\ tick = 0
    /\ agents = <<>>
    /\ schedule = <<>>
    /\ registered = <<>>
    /\ invocations = <<>>
    /\ lastAdvance = NoRaise

\* register_agent storing the interval as given, without the minimum of 1
register_agent_RawInterval(name, start_tick, interval) ==
    /\ Len(registered) < MaxAgents
    /\ agents' = [n \in DOMAIN agents \cup {name} |->
                    IF n = name THEN interval ELSE agents[n]]
    /\ schedule' = ScheduleAppend(schedule, start_tick, name)
    /\ registered' = Append(registered,
                        [name |-> name, start |-> start_tick, interval |-> interval, at |-> tick])
    /\ UNCHANGED <<tick, invocations, lastAdvance, lightVars, routerVars, vehicleVars, fleetVars, runtimeVars>>

\* register_agent(name, callback, start_tick, interval)
register_agent(name, start_tick, interval) ==
    /\ Len(registered) < MaxAgents
    /\ agents' = [n \in DOMAIN agents \cup {name} |->
                    IF n = name THEN Max(1, interval) ELSE agents[n]]
    /\ schedule' = ScheduleAppend(schedule, start_tick, name)
    /\ registered' = Append(registered,
                        [name |-> name, start |-> start_tick, interval |-> interval, at |-> tick])
    /\ UNCHANGED <<tick, invocations, lastAdvance, lightVars, routerVars, vehicleVars, fleetVars, runtimeVars>>

\* _run_callbacks: the pair <<schedule, invocations>> after the loop over due names
RECURSIVE RunCallbacks(_, _, _, _)
RunCallbacks(due, i, sched, invs) ==
    IF i > Len(due) THEN <<sched, invs>>
    ELSE LET name == due[i]
             next_tick == tick + agents[name]
         IN RunCallbacks(due, i + 1,
                ScheduleAppend(sched, next_tick, name),
                Append(invs, [name |-> name, arg |-> tick, at |-> tick]))

\* advance_tick()
advance_tick ==
    /\ tick < MaxTick
    /\ LET due_agents == SchedulePopValue(schedule, tick)
           ran == RunCallbacks(due_agents, 1, SchedulePopRest(schedule, tick), invocations)
       IN /\ schedule' = ran[1]
          /\ invocations' = ran[2]
    /\ tick' = tick + 1
    /\ lastAdvance' = NoRaise
    /\ UNCHANGED <<agents, registered, lightVars, routerVars, vehicleVars, fleetVars, runtimeVars>>

\* advance_tick going on to the next callback and to the next tick after the
\* callback of the k-th due agent has raised
advance_tick_raising_Swallowed(k) ==
    /\ tick < MaxTick
    /\ k \in 1..Len(SchedulePopValue(schedule, tick))
    /\ LET due_agents == SchedulePopValue(schedule, tick)
           ran == RunCallbacks(due_agents, 1, SchedulePopRest(schedule, tick), invocations)
       IN /\ schedule' = ran[1]
          /\ invocations' = ran[2]
          /\ lastAdvance' = [raised |-> TRUE, at |-> tick, due |-> due_agents, upto |-> k,
                             before |-> Len(invocations), registered |-> Len(registered),
                             run |-> NoRun]
    /\ tick' = tick + 1
    /\ UNCHANGED <<agents, registered, lightVars, routerVars, vehicleVars, fleetVars, runtimeVars>>

\* advance_tick reading the tick's entry with get instead of pop, the callback of
\* the k-th due agent raising: the entry stays in the schedule
advance_tick_raising_Unpopped(k) ==
    /\ tick < MaxTick
    /\ k \in 1..Len(SchedulePopValue(schedule, tick))
    /\ LET due_agents == SchedulePopValue(schedule, tick)
           ran == RunCallbacks(SubSeq(due_agents, 1, k - 1), 1, schedule, invocations)
       IN /\ schedule' = ran[1]
          /\ invocations' = Append(ran[2], [name |-> due_agents[k], arg |-> tick, at |-> tick])
          /\ lastAdvance' = [raised |-> TRUE, at |-> tick, due |-> due_agents, upto |-> k,
                             before |-> Len(invocations), registered |-> Len(registered),
                             run |-> NoRun]
    /\ UNCHANGED <<tick, agents, registered, lightVars, routerVars, vehicleVars, fleetVars, runtimeVars>>

\* advance_tick() when the callback of the k-th agent due at this tick raises:
\* the agents before it have run and are rescheduled, the k-th has been called,
\* and the exception leaves _run_callbacks and advance_tick before anything else
advance_tick_raising(k) ==
    /\ tick < MaxTick
    /\ k \in 1..Len(SchedulePopValue(schedule, tick))
    /\ LET due_agents == SchedulePopValue(schedule, tick)
           ran == RunCallbacks(SubSeq(due_agents, 1, k - 1), 1,
                               SchedulePopRest(schedule, tick), invocations)
       IN /\ schedule' = ran[1]
          /\ invocations' = Append(ran[2], [name |-> due_agents[k], arg |-> tick, at |-> tick])
          /\ lastAdvance' = [raised |-> TRUE, at |-> tick, due |-> due_agents, upto |-> k,
                             before |-> Len(invocations), registered |-> Len(registered),
                             run |-> NoRun]
    /\ UNCHANGED <<tick, agents, registered, lightVars, routerVars, vehicleVars, fleetVars, runtimeVars>>

\* _run_callbacks at tick t: the pair <<schedule, invocations>> after the loop
RECURSIVE RunCallbacksAt(_, _, _, _, _)
RunCallbacksAt(t, due, i, sched, invs) ==
    IF i > Len(due) THEN <<sched, invs>>
    ELSE RunCallbacksAt(t, due, i + 1,
            ScheduleAppend(sched, t + agents[due[i]], due[i]),
            Append(invs, [name |-> due[i], arg |-> t, at |-> t]))

\* the loop of run going round once more when the tick has reached the limit
RECURSIVE RunLoop_Inclusive(_, _, _, _, _)
RunLoop_Inclusive(limit, t, sched, invs, calls) ==
    IF t <= limit
    THEN Only({RunLoop_Inclusive(limit, t + 1, ran[1], ran[2], calls + 1) : ran \in
                 {RunCallbacksAt(t, SchedulePopValue(sched, t), 1,
                                 SchedulePopRest(sched, t), invs)}})
    ELSE [tick |-> t, schedule |-> sched, invocations |-> invs, calls |-> calls]

\* the loop of run: `while self.tick < limit: self.advance_tick()`, from tick t
RECURSIVE RunLoop(_, _, _, _, _)
RunLoop(limit, t, sched, invs, calls) ==
    IF t < limit
    THEN Only({RunLoop(limit, t + 1, ran[1], ran[2], calls + 1) : ran \in
                 {RunCallbacksAt(t, SchedulePopValue(sched, t), 1,
                                 SchedulePopRest(sched, t), invs)}})
    ELSE [tick |-> t, schedule |-> sched, invocations |-> invs, calls |-> calls]

\* SimulationConfig.max_ticks of the modelled runs, and the arguments of run
ConfigMaxTicks == MaxTick
RunLimits == (0..MaxTick) \cup {None}

\* run(max_ticks), the callbacks returning normally
run(max_ticks) ==
    /\ \E limit \in {IF max_ticks # None THEN max_ticks ELSE ConfigMaxTicks} :
       \E r \in {RunLoop(limit, tick, schedule, invocations, 0)} :
          /\ tick' = r.tick
          /\ schedule' = r.schedule
          /\ invocations' = r.invocations
          /\ lastAdvance' = [NoRaise EXCEPT !.run =
                                [called |-> TRUE, from |-> tick, limit |-> limit,
                                 calls |-> r.calls, before |-> Len(invocations)]]
    /\ UNCHANGED <<agents, registered, lightVars, routerVars, vehicleVars, fleetVars, runtimeVars>>

NextEngine ==
    \/ \E n \in Names, s \in Starts, k \in Intervals : register_agent(n, s, k)
    \/ advance_tick

\* the engine driven by run as well as by single ticks
RunStarts == {0, 1}
RunIntervals == {2}
NextEngineRun ==
    \/ \E n \in Names, s \in RunStarts, k \in RunIntervals : register_agent(n, s, k)
    \/ advance_tick
    \/ \E m \in RunLimits : run(m)

\* the engine with callbacks that may raise; registrations start now or at the
\* next tick
FaultStarts == {0, 1}
FaultIntervals == {1, 2}
NextEngineFaults ==
    \/ \E n \in Names, s \in FaultStarts, k \in FaultIntervals : register_agent(n, s, k)
    \/ advance_tick
    \/ \E k \in 1..MaxAgents : advance_tick_raising(k)

(***************************************************************************)
(* TrafficLight                                                            *)
(***************************************************************************)
MaxElapsed == 40
Phases == {"NS", "EW"}
DurationValues == {0, 10, 20}
DtValues == {0, 5, 6, 10, 11, 25}

\* TrafficLight.tick that forgets, at each call, the time of the calls before
LightTick_Forgetful(l, d, dt) ==
    LET elapsed == dt
        duration == d[l.phase]
    IN IF duration <= 0 THEN [l EXCEPT !.elapsed = elapsed]
       ELSE IF elapsed >= duration
            THEN [phase |-> IF l.phase = "NS" THEN "EW" ELSE "NS", elapsed |-> 0]
            ELSE [l EXCEPT !.elapsed = elapsed]

\* TrafficLight.tick carrying the overflow beyond the duration into the new phase
LightTick_CarryOverflow(l, d, dt) ==
    LET elapsed == l.elapsed + dt
        duration == d[l.phase]
    IN IF duration <= 0 THEN [l EXCEPT !.elapsed = elapsed]
       ELSE IF elapsed >= duration
            THEN [phase |-> IF l.phase = "NS" THEN "EW" ELSE "NS", elapsed |-> elapsed - duration]
            ELSE [l EXCEPT !.elapsed = elapsed]

\* TrafficLight.tick switching only once elapsed is strictly beyond the duration
LightTick_StrictlyBeyond(l, d, dt) ==
    LET elapsed == l.elapsed + dt
        duration == d[l.phase]
    IN IF duration <= 0 THEN [l EXCEPT !.elapsed = elapsed]
       ELSE IF elapsed > duration
            THEN [phase |-> IF l.phase = "NS" THEN "EW" ELSE "NS", elapsed |-> 0]
            ELSE [l EXCEPT !.elapsed = elapsed]

\* TrafficLight.tick(dt) on the light l with the phase durations d
LightTick(l, d, dt) ==
    LET elapsed == l.elapsed + dt
        duration == d[l.phase]
    IN IF duration <= 0 THEN [l EXCEPT !.elapsed = elapsed]
       ELSE IF elapsed >= duration
            THEN [phase |-> IF l.phase = "NS" THEN "EW" ELSE "NS", elapsed |-> 0]
            ELSE [l EXCEPT !.elapsed = elapsed]

LightInit ==
    /\ light \in [phase : Phases, elapsed : {0}]
    /\ durations \in [Phases -> DurationValues]
    /\ lightHist = [dt |-> -1, before |-> light, since |-> 0]

\* the light of a specification that never ticks it
LightIdle ==
    /\ light = [phase |-> "NS", elapsed |-> 0]
    /\ durations = [p \in Phases |-> 300]
    /\ lightHist = [dt |-> -1, before |-> light, since |-> 0]

TrafficLight_tick(dt) ==
    /\ light.elapsed + dt <= MaxElapsed
    /\ light' = LightTick(light, durations, dt)
    /\ lightHist' = [dt |-> dt, before |-> light,
                     since |-> IF light'.phase # light.phase THEN 0 ELSE lightHist.since + dt]
    /\ UNCHANGED <<durations, engineVars, vehicleVars, fleetVars, runtimeVars, routerVars>>

NextLight == \E dt \in DtValues : TrafficLight_tick(dt)

\* a light whose two durations are positive, ticked with positive dt only
LightCycleInit ==
    /\ light \in [phase : Phases, elapsed : {0}]
    /\ durations \in [Phases -> DurationValues \ {0}]
    /\ lightHist = [dt |-> -1, before |-> light, since |-> 0]

NextLightCycle == \E dt \in DtValues \ {0} : TrafficLight_tick(dt)

(***************************************************************************)
(* Vehicle                                                                 *)
(***************************************************************************)
MaxStuckTicks == 7

\* IDM parameters of the dataclass (tenths)
VehicleLength == 45
DesiredTimeHeadway == 15
MinimumSpacing == 20
AccelerationMax == 10
DecelerationComfortable == 15
\* 100 * 2 * sqrt(acceleration_max * deceleration_comfortable), in tenths
TwoSqrtAB100 == 2449
StuckThreshold == 5

\* an edge dict of the network
Edge(id, from, to, length, speed_limit, capacity) ==
    [id |-> id, from |-> from, to |-> to, length |-> length,
     speed_limit |-> speed_limit, capacity |-> capacity]

\* the value of `{}`: every .get falls back to its default
EmptyEdge == Edge("", "", "", 0, 0, 0)

\* Vehicle(vehicle_id, route, patience, destination, ...) with the dataclass defaults
NewVehicle(id, route, patience) ==
    [vehicle_id |-> id, route |-> route, patience |-> patience,
     position |-> 0, velocity |-> 0, current_edge_index |-> 0, arrived |-> FALSE,
     length |-> VehicleLength, acceleration |-> 0, stuck_ticks |-> 0, stuck |-> FALSE]

\* Vehicle._current_edge
CurrentEdge(v) ==
    IF v.route = <<>> THEN EmptyEdge
    ELSE v.route[Min(v.current_edge_index, Len(v.route) - 1) + 1]

\* Vehicle.current_edge_id
CurrentEdgeId(v) == CurrentEdge(v).id

\* edge_remaining forgetting the distance already travelled on the edge
EdgeRemaining_WholeEdge(v) == Max(CurrentEdge(v).length, 0)

\* Vehicle.edge_remaining
EdgeRemaining(v) == Max(CurrentEdge(v).length - v.position, 0)

\* Vehicle.desired_speed
DesiredSpeed(v) == Max((CurrentEdge(v).speed_limit * v.patience) \div 10, 0)

\* Vehicle._idm_desired_gap
IdmDesiredGap(v, relative_speed) ==
    MinimumSpacing
    + Max(0, (v.velocity * DesiredTimeHeadway) \div 10
             + (v.velocity * relative_speed * 100) \div TwoSqrtAB100)

\* `leader is None`
NoLeader == [present |-> FALSE, edge_id |-> "", position |-> 0, velocity |-> 0, length |-> 0]

\* the fields of a leading Vehicle that compute_acceleration reads
LeaderOf(v) ==
    [present |-> TRUE, edge_id |-> CurrentEdgeId(v), position |-> v.position,
     velocity |-> v.velocity, length |-> v.length]

\* compute_acceleration reacting to a leader whatever edge it is on
ComputeAcceleration_AnyEdge(v, leader) ==
    LET desired == DesiredSpeed(v)
        leader_gap == Max(leader.position - v.position - leader.length, 1)
        relative_speed == IF leader.present THEN v.velocity - leader.velocity ELSE 0
        s_star == IdmDesiredGap(v, relative_speed)
        r1 == (v.velocity * 100) \div desired
        r2 == (r1 * r1) \div 100
        free_flow_term == (r2 * r2) \div 100
        q1 == (s_star * 100) \div leader_gap
        interaction_term == IF leader.present THEN (q1 * q1) \div 100 ELSE 0
    IN IF desired <= 0 THEN -DecelerationComfortable
       ELSE (AccelerationMax * (100 - free_flow_term - interaction_term)) \div 100

\* Vehicle.compute_acceleration; the two ratios are taken in hundredths
ComputeAcceleration(v, leader) ==
    LET desired == DesiredSpeed(v)
        follows == leader.present /\ leader.edge_id = CurrentEdgeId(v)
        leader_gap == Max(leader.position - v.position - leader.length, 1)
        relative_speed == IF follows THEN v.velocity - leader.velocity ELSE 0
        s_star == IdmDesiredGap(v, relative_speed)
        r1 == (v.velocity * 100) \div desired
        r2 == (r1 * r1) \div 100
        free_flow_term == (r2 * r2) \div 100
        q1 == (s_star * 100) \div leader_gap
        interaction_term == IF follows THEN (q1 * q1) \div 100 ELSE 0
    IN IF desired <= 0 THEN -DecelerationComfortable
       ELSE (AccelerationMax * (100 - free_flow_term - interaction_term)) \div 100

\* `can_enter_next is None`; otherwise answers[i + 1] is the callback's answer for
\* leaving the edge of index i (a step asks at most once per index)
NoGate == [present |-> FALSE, answers |-> <<>>]

\* _advance_edge skipping the next edge when the leftover distance covers it
AdvanceEdge_Jump(v, distance, gate) ==
    LET remaining == EdgeRemaining(v)
        next_edge_index == v.current_edge_index + 1
        has_next == next_edge_index < Len(v.route)
        queried == has_next /\ gate.present
        skip == has_next /\ distance - remaining >= v.route[next_edge_index + 1].length
        moved == [v EXCEPT !.position = 0,
                           !.current_edge_index = IF skip THEN @ + 2 ELSE @ + 1]
    IN IF remaining > 0 /\ distance < remaining
       THEN [veh |-> [v EXCEPT !.position = @ + Min(distance, remaining)],
             distance |-> 0, blocked |-> FALSE, queried |-> FALSE]
       ELSE IF queried /\ ~gate.answers[v.current_edge_index + 1]
       THEN [veh |-> [v EXCEPT !.position = CurrentEdge(v).length],
             distance |-> 0, blocked |-> TRUE, queried |-> TRUE]
       ELSE IF moved.current_edge_index >= Len(v.route)
       THEN [veh |-> [moved EXCEPT !.arrived = TRUE, !.velocity = 0],
             distance |-> 0, blocked |-> FALSE, queried |-> queried]
       ELSE [veh |-> moved, distance |-> distance - remaining,
             blocked |-> FALSE, queried |-> queried]

\* _advance_edge leaving a refused vehicle where it was instead of at the edge's end
AdvanceEdge_NoSnap(v, distance, gate) ==
    LET remaining == EdgeRemaining(v)
        next_edge_index == v.current_edge_index + 1
        has_next == next_edge_index < Len(v.route)
        queried == has_next /\ gate.present
        moved == [v EXCEPT !.position = 0, !.current_edge_index = @ + 1]
    IN IF remaining > 0 /\ distance < remaining
       THEN [veh |-> [v EXCEPT !.position = @ + Min(distance, remaining)],
             distance |-> 0, blocked |-> FALSE, queried |-> FALSE]
       ELSE IF queried /\ ~gate.answers[v.current_edge_index + 1]
       THEN [veh |-> v, distance |-> 0, blocked |-> TRUE, queried |-> TRUE]
       ELSE IF moved.current_edge_index >= Len(v.route)
       THEN [veh |-> [moved EXCEPT !.arrived = TRUE, !.velocity = 0],
             distance |-> 0, blocked |-> FALSE, queried |-> queried]
       ELSE [veh |-> moved, distance |-> distance - remaining,
             blocked |-> FALSE, queried |-> queried]

\* Vehicle._advance_edge: the vehicle after the call, the distance returned, the
\* blocked flag, and whether can_enter_next was called
AdvanceEdge(v, distance, gate) ==
    LET remaining == EdgeRemaining(v)
        next_edge_index == v.current_edge_index + 1
        has_next == next_edge_index < Len(v.route)
        queried == has_next /\ gate.present
        moved == [v EXCEPT !.position = 0, !.current_edge_index = @ + 1]
    IN IF remaining > 0 /\ distance < remaining
       THEN [veh |-> [v EXCEPT !.position = @ + Min(distance, remaining)],
             distance |-> 0, blocked |-> FALSE, queried |-> FALSE]
       ELSE IF queried /\ ~gate.answers[v.current_edge_index + 1]
       THEN [veh |-> [v EXCEPT !.position = CurrentEdge(v).length],
             distance |-> 0, blocked |-> TRUE, queried |-> TRUE]
       ELSE IF moved.current_edge_index >= Len(v.route)
       THEN [veh |-> [moved EXCEPT !.arrived = TRUE, !.velocity = 0],
             distance |-> 0, blocked |-> FALSE, queried |-> queried]
       ELSE [veh |-> moved, distance |-> distance - remaining,
             blocked |-> FALSE, queried |-> queried]

\* the while loop of Vehicle.step: the vehicle after it, was_blocked, and the
\* sequence of _advance_edge calls made
RECURSIVE AdvanceLoop(_, _, _, _, _)
AdvanceLoop(v, remaining_distance, was_blocked, gate, calls) ==
    IF remaining_distance > 0 /\ ~v.arrived
    THEN Only({AdvanceLoop(r.veh, r.distance, was_blocked \/ r.blocked, gate,
                  Append(calls, [from_index |-> v.current_edge_index,
                                 to_index |-> r.veh.current_edge_index,
                                 position |-> r.veh.position,
                                 distance_in |-> remaining_distance,
                                 distance_out |-> r.distance,
                                 queried |-> r.queried,
                                 blocked |-> r.blocked]))
               : r \in {AdvanceEdge(v, remaining_distance, gate)}})
    ELSE [veh |-> v, was_blocked |-> was_blocked, calls |-> calls]

\* _update_stuck_state raising the flag one tick late
UpdateStuckState_Late(v, was_blocked) ==
    LET stationary == was_blocked \/ v.velocity < 1
        ticks == IF stationary /\ ~v.arrived THEN v.stuck_ticks + 1 ELSE 0
    IN [v EXCEPT !.stuck_ticks = ticks, !.stuck = (ticks > StuckThreshold)]

\* _update_stuck_state counting an arrived vehicle as stationary
UpdateStuckState_CountArrived(v, was_blocked) ==
    LET stationary == was_blocked \/ v.velocity < 1
        ticks == IF stationary THEN v.stuck_ticks + 1 ELSE 0
    IN [v EXCEPT !.stuck_ticks = ticks, !.stuck = (ticks >= StuckThreshold)]

\* Vehicle._update_stuck_state
UpdateStuckState(v, was_blocked) ==
    LET stationary == was_blocked \/ v.velocity < 1
        ticks == IF stationary /\ ~v.arrived THEN v.stuck_ticks + 1 ELSE 0
    IN [v EXCEPT !.stuck_ticks = ticks, !.stuck = (ticks >= StuckThreshold)]

\* Vehicle.step(dt, leader, can_enter_next): the vehicle after the step with
\* was_blocked and the _advance_edge calls
StepResult(v, dt, leader, gate) ==
    IF v.arrived
    THEN [veh |-> [v EXCEPT !.acceleration = 0, !.velocity = 0],
          was_blocked |-> FALSE, calls |-> <<>>]
    ELSE LET acceleration == ComputeAcceleration(v, leader)
             new_velocity == Max(0, Min(DesiredSpeed(v),
                                        v.velocity + (acceleration * dt) \div 10))
             distance == Max((20 * v.velocity * dt + acceleration * dt * dt) \div 200, 0)
             Finish(looped) ==
                 LET after == looped.veh
                     final == [after EXCEPT !.velocity =
                                  IF after.arrived THEN 0
                                  ELSE IF looped.was_blocked THEN 0 ELSE new_velocity]
                 IN [veh |-> UpdateStuckState(final, looped.was_blocked),
                     was_blocked |-> looped.was_blocked, calls |-> looped.calls]
         IN Only({Finish(looped) : looped \in
                    {AdvanceLoop([v EXCEPT !.acceleration = acceleration],
                                 distance, FALSE, gate, <<>>)}})

\* routes, patience factors, time steps, leaders and gates of the single-vehicle runs
Routes ==
    { << Edge("e1", "n_0_0", "n_0_1", 60, 40, 2), Edge("e2", "n_0_1", "n_0_2", 20, 20, 2),
         Edge("e3", "n_0_2", "n_1_2", 60, 40, 2) >>,
      << Edge("e1", "n_0_0", "n_0_1", 30, 40, 2), Edge("e2", "n_0_1", "n_0_2", 0, 40, 2),
         Edge("e3", "n_0_2", "n_1_2", 15, 0, 2) >>,
      << Edge("e1", "n_0_0", "n_0_1", 45, 30, 2) >> }
Patiences == {8, 12}
StepDts == {0, 10, 20}
InitialPositions == {0, 25}
InitialVelocities == {0, 30}
Leader(edge_id, position, velocity) ==
    [present |-> TRUE, edge_id |-> edge_id, position |-> position,
     velocity |-> velocity, length |-> VehicleLength]
Leaders == {NoLeader, Leader("e1", 30, 0), Leader("e1", 58, 30), Leader("e3", 50, 10)}
Gates(route) ==
    {NoGate} \cup [present : {TRUE}, answers : [1..(Len(route) - 1) -> BOOLEAN]]

VehicleInit ==
    /\ \E route \in Routes, patience \in Patiences,
          position \in InitialPositions, velocity \in InitialVelocities :
          /\ position <= route[1].length
          /\ veh = [NewVehicle("veh_1", route, patience) EXCEPT
                        !.position = position, !.velocity = velocity]
    /\ stepHist = [stepped |-> FALSE, has_gate |-> FALSE, before |-> veh,
                   was_blocked |-> FALSE, calls |-> <<>>]
    /\ consec = 0

\* the vehicle of a specification that never steps it
VehicleIdle ==
    /\ veh = NewVehicle("veh_1", <<Edge("e1", "n_0_0", "n_0_1", 45, 30, 2)>>, 10)
    /\ stepHist = [stepped |-> FALSE, has_gate |-> FALSE, before |-> veh,
                   was_blocked |-> FALSE, calls |-> <<>>]
    /\ consec = 0

\* Vehicle.step(dt, leader, can_enter_next=gate)
step(dt, leader, gate) ==
    /\ veh.stuck_ticks < MaxStuckTicks
    /\ \E r \in {StepResult(veh, dt, leader, gate)} :
          /\ veh' = r.veh
          /\ stepHist' = [stepped |-> TRUE, has_gate |-> gate.present, before |-> veh,
                          was_blocked |-> r.was_blocked, calls |-> r.calls]
          /\ consec' = IF ~r.veh.arrived /\ (r.was_blocked \/ r.veh.velocity < 1)
                       THEN consec + 1 ELSE 0
    /\ UNCHANGED <<engineVars, lightVars, routerVars, fleetVars, runtimeVars>>

NextVehicle ==
    \E dt \in StepDts, leader \in Leaders, gate \in Gates(veh.route) : step(dt, leader, gate)

(***************************************************************************)
(* TrafficSignalController                                                 *)
(***************************************************************************)
\* self._node_lookup.get(node_id, {})
NodeLookup(net, node_id) ==
    IF \E n \in net.nodes : n.id = node_id
    THEN CHOOSE n \in net.nodes : n.id = node_id
    ELSE EmptyDict

\* _orientation that never answers EW
Orientation_AlwaysNS(net, from_id, to_id) == "NS"

\* TrafficSignalController._orientation
Orientation(net, from_id, to_id) ==
    LET from_node == NodeLookup(net, from_id)
        to_node == NodeLookup(net, to_id)
        from_row == Get(from_node, "row", Get(from_node, "y", None))
        to_row == Get(to_node, "row", Get(to_node, "y", None))
        from_col == Get(from_node, "col", Get(from_node, "x", None))
        to_col == Get(to_node, "col", Get(to_node, "x", None))
    IN IF from_row # None /\ to_row # None /\ from_row # to_row THEN "NS"
       ELSE IF from_col # None /\ to_col # None /\ from_col # to_col THEN "EW"
       ELSE "NS"

\* TrafficLight.allows
Allows(l, orientation) == l.phase = orientation

\* TrafficSignalController.can_enter
SignalsCanEnter(net, sig, current_edge, next_edge) ==
    LET dest == current_edge.to
    IN IF dest \notin DOMAIN sig.lights THEN TRUE
       ELSE Allows(sig.lights[dest], Orientation(net, current_edge.from, dest))

\* TrafficSignalController(network, phase_durations, start_phase)
NewSignals(net, phase_durations, start_phase) ==
    [present |-> TRUE,
     phase_durations |-> phase_durations,
     lights |-> [n \in {m.id : m \in net.nodes} |-> [phase |-> start_phase, elapsed |-> 0]]]

\* state.get("signals") is None
NoSignals == [present |-> FALSE, phase_durations |-> <<>>, lights |-> <<>>]

(***************************************************************************)
(* EdgeSpatialIndex                                                        *)
(***************************************************************************)
BinSize == 200

\* a bucket left in the order the vehicles were met
SortByPositionDesc_Unsorted(seg, vs) == seg

\* list.sort(key=position, reverse=True), stable, on a sequence of fleet indices
RECURSIVE SortByPositionDesc(_, _)
SortByPositionDesc(seg, vs) ==
    IF seg = <<>> THEN <<>>
    ELSE LET last == seg[Len(seg)]
             Insert(rest) ==
                 LET k == Cardinality({j \in DOMAIN rest :
                                          vs[rest[j]].position >= vs[last].position})
                 IN SubSeq(rest, 1, k) \o <<last>> \o SubSeq(rest, k + 1, Len(rest))
         IN Only({Insert(rest) : rest \in
                    {SortByPositionDesc(SubSeq(seg, 1, Len(seg) - 1), vs)}})

\* the buckets of one edge concatenated from the highest bin id to the lowest
RECURSIVE ConcatBins(_, _, _)
ConcatBins(members, bin_ids, vs) ==
    IF bin_ids = {} THEN <<>>
    ELSE LET top == CHOOSE b \in bin_ids : \A c \in bin_ids : c <= b
             segment == SelectSeq(members, LAMBDA i : vs[i].position \div BinSize = top)
         IN SortByPositionDesc(segment, vs) \o ConcatBins(members, bin_ids \ {top}, vs)

\* the edge ids of the live vehicles in order of first appearance (dict insertion order)
RECURSIVE EdgeOrder(_, _, _)
EdgeOrder(vs, i, acc) ==
    IF i > Len(vs) THEN acc
    ELSE IF vs[i].arrived \/ (\E k \in DOMAIN acc : acc[k] = CurrentEdgeId(vs[i]))
         THEN EdgeOrder(vs, i + 1, acc)
         ELSE EdgeOrder(vs, i + 1, Append(acc, CurrentEdgeId(vs[i])))

\* EdgeSpatialIndex.build: the queues (fleet indices) per edge, and the occupancy dict
SpatialIndexBuild(vs) ==
    LET edge_ids == EdgeOrder(vs, 1, <<>>)
        indices == [i \in 1..Len(vs) |-> i]
        Members(e) == SelectSeq(indices, LAMBDA i : ~vs[i].arrived /\ CurrentEdgeId(vs[i]) = e)
        Queue(e) == ConcatBins(Members(e),
                               {vs[Members(e)[k]].position \div BinSize : k \in DOMAIN Members(e)},
                               vs)
    IN [ordering |-> [k \in DOMAIN edge_ids |-> [edge_id |-> edge_ids[k], queue |-> Queue(edge_ids[k])]],
        occupancy |-> [e \in {edge_ids[k] : k \in DOMAIN edge_ids} |-> Len(Members(e))]]

(***************************************************************************)
(* VehicleSpawner                                                          *)
(***************************************************************************)
MaxFleetTicks == 8
MaxRouteLen == 4

\* _coords(node_id): the row and column written in the id n_<row>_<col>
Coords(net, node_id) ==
    LET n == NodeLookup(net, node_id) IN <<Get(n, "row", None), Get(n, "col", None)>>

\* the edges of one pass of the greedy walk's while loop at node `current`
StepOptions(net, current, destination) ==
    LET cur == Coords(net, current)
        dest == Coords(net, destination)
        by_from == {e \in net.edges : e.from = current}
        To(r, c) == {e \in by_from : Coords(net, e.to) = <<r, c>>}
        cols == IF dest[2] > cur[2] THEN To(cur[1], cur[2] + 1)
                ELSE IF dest[2] < cur[2] THEN To(cur[1], cur[2] - 1) ELSE {}
        rows == IF dest[1] > cur[1] THEN To(cur[1] + 1, cur[2])
                ELSE IF dest[1] < cur[1] THEN To(cur[1] - 1, cur[2]) ELSE {}
    IN IF cols \cup rows # {} THEN cols \cup rows ELSE by_from

\* the while loop of _build_route from `current` with `route` built so far: the
\* outcomes [status, route]; "error" is the ValueError, "unbounded" a walk that
\* is still running after MaxRouteLen edges
RECURSIVE Walk(_, _, _, _)
Walk(net, current, destination, route) ==
    IF Coords(net, current) = Coords(net, destination)
    THEN {[status |-> "ok", route |-> route]}
    ELSE IF StepOptions(net, current, destination) = {}
    THEN {[status |-> "error", route |-> <<>>]}
    ELSE IF Len(route) >= MaxRouteLen
    THEN {[status |-> "unbounded", route |-> <<>>]}
    ELSE UNION {Walk(net, e.to, destination, Append(route, e)) :
                    e \in StepOptions(net, current, destination)}

\* _build_route handing back an empty route where the code raises
BuildRoute_NeverFails(net, destination) ==
    IF net.edges = {} THEN {[status |-> "ok", route |-> <<>>]}
    ELSE UNION {
            {IF o.status = "ok" /\ o.route = <<>>
             THEN [status |-> "ok", route |-> <<e>>]
             ELSE [status |-> "ok", route |-> o.route] : e \in net.edges}
            : o \in UNION {Walk(net, start.id, destination, <<>>) : start \in net.nodes}}

\* VehicleSpawner._build_route for every choice of the random generator
BuildRoute(net, destination) ==
    IF net.edges = {} THEN {[status |-> "error", route |-> <<>>]}
    ELSE UNION {
            {IF o.status = "ok" /\ o.route = <<>>
             THEN [status |-> "ok", route |-> <<e>>] ELSE o : e \in net.edges}
            : o \in UNION {Walk(net, start.id, destination, <<>>) : start \in net.nodes}}

\* VehicleSpawner._choose_destination for every choice of the random generator
ChooseDestination(net, sp) ==
    IF sp.destinations # {} THEN sp.destinations ELSE {n.id : n \in net.nodes}

\* what a tick that spawned nothing records as its spawn
NoSpawn == [happened |-> FALSE, destination |-> "", route |-> <<>>,
            vehicle_id |-> <<>>, replaced |-> FALSE]

\* _spawn_vehicle naming the vehicle after the size of the fleet alone
SpawnVehicle_IdFromSize(net, sp, vs, tick_arg) ==
    UNION {
      {IF o.status = "ok"
       THEN LET vehicle_id == <<0, Len(vs)>>
                vehicle == NewVehicle(vehicle_id, o.route, patience)
                replaced == \E i \in DOMAIN vs : vs[i].vehicle_id = vehicle_id
            IN [status |-> "ok",
                vehicles |-> IF replaced
                             THEN [i \in DOMAIN vs |->
                                      IF vs[i].vehicle_id = vehicle_id THEN vehicle ELSE vs[i]]
                             ELSE Append(vs, vehicle),
                spawn |-> [happened |-> TRUE, destination |-> d, route |-> o.route,
                           vehicle_id |-> vehicle_id, replaced |-> replaced]]
       ELSE [status |-> o.status, vehicles |-> vs, spawn |-> NoSpawn]
       : o \in BuildRoute(net, d), patience \in sp.patiences}
      : d \in ChooseDestination(net, sp)}

\* VehicleSpawner._spawn_vehicle: the outcomes [status, vehicles, spawn]; the id
\* veh_<tick>_<len(vehicles)> is the pair, and assigning to an id that is in the
\* dict replaces that vehicle in place
SpawnVehicle(net, sp, vs, tick_arg) ==
    UNION {
      {IF o.status = "ok"
       THEN LET vehicle_id == <<tick_arg, Len(vs)>>
                vehicle == NewVehicle(vehicle_id, o.route, patience)
                replaced == \E i \in DOMAIN vs : vs[i].vehicle_id = vehicle_id
            IN [status |-> "ok",
                vehicles |-> IF replaced
                             THEN [i \in DOMAIN vs |->
                                      IF vs[i].vehicle_id = vehicle_id THEN vehicle ELSE vs[i]]
                             ELSE Append(vs, vehicle),
                spawn |-> [happened |-> TRUE, destination |-> d, route |-> o.route,
                           vehicle_id |-> vehicle_id, replaced |-> replaced]]
       ELSE [status |-> o.status, vehicles |-> vs, spawn |-> NoSpawn]
       : o \in BuildRoute(net, d), patience \in sp.patiences}
      : d \in ChooseDestination(net, sp)}

\* the spawn condition of tick ignoring the cap
SpawnDue_IgnoreCap(sp, vs) == sp.tick_counter % sp.spawn_interval = 0

\* the spawn condition of tick (spawn_interval is positive)
SpawnDue(sp, vs) ==
    sp.tick_counter % sp.spawn_interval = 0 /\ Len(vs) < sp.max_vehicles

\* _remove_arrived taking the vehicles that have come to a halt
RemoveArrived_Halted(vs) == SelectSeq(vs, LAMBDA v : ~v.arrived /\ v.velocity > 0)

\* VehicleSpawner._remove_arrived
RemoveArrived(vs) == SelectSeq(vs, LAMBDA v : ~v.arrived)

\* _blocked_edges taking every stuck vehicle, wherever it is on its edge
BlockedEdges_AnyStuck(ordering, vs) ==
    {ordering[k].edge_id : k \in
        {k \in DOMAIN ordering :
            \E j \in DOMAIN ordering[k].queue : vs[ordering[k].queue[j]].stuck}}

\* VehicleSpawner._blocked_edges
BlockedEdges(ordering, vs) ==
    {ordering[k].edge_id : k \in
        {k \in DOMAIN ordering :
            \E j \in DOMAIN ordering[k].queue :
                LET v == vs[ordering[k].queue[j]]
                IN v.stuck /\ EdgeRemaining(v) < v.length}}

\* _can_enter_next_edge without the question to the signal controller
CanEnterNextEdge_IgnoreSignals(net, current_edge, next_edge, occupancy, blocked_edges, sig, closed) ==
    LET next_capacity == next_edge.capacity
        next_id == next_edge.id
    IN IF Get(occupancy, next_id, 0) >= next_capacity THEN FALSE
       ELSE IF next_id \in blocked_edges THEN FALSE
       ELSE IF next_id \in closed THEN FALSE
       ELSE TRUE

\* _can_enter_next_edge refusing only once the next edge is over its capacity
CanEnterNextEdge_OverCapacity(net, current_edge, next_edge, occupancy, blocked_edges, sig, closed) ==
    LET next_capacity == next_edge.capacity
        next_id == next_edge.id
    IN IF Get(occupancy, next_id, 0) > next_capacity THEN FALSE
       ELSE IF next_id \in blocked_edges THEN FALSE
       ELSE IF next_id \in closed THEN FALSE
       ELSE IF sig.present /\ ~SignalsCanEnter(net, sig, current_edge, next_edge) THEN FALSE
       ELSE TRUE

\* VehicleSpawner._can_enter_next_edge (next_edge is never None where the
\* vehicle asks: _advance_edge asks only when there is a next edge)
CanEnterNextEdge(net, current_edge, next_edge, occupancy, blocked_edges, sig, closed) ==
    LET next_capacity == next_edge.capacity
        next_id == next_edge.id
    IN IF Get(occupancy, next_id, 0) >= next_capacity THEN FALSE
       ELSE IF next_id \in blocked_edges THEN FALSE
       ELSE IF next_id \in closed THEN FALSE
       ELSE IF sig.present /\ ~SignalsCanEnter(net, sig, current_edge, next_edge) THEN FALSE
       ELSE TRUE

\* VehicleSpawner._can_enter_next_edge for any edge dict, with or without a
\* capacity: int(next_edge.get("capacity", math.inf)) is int(math.inf) when the
\* key is missing, which raises OverflowError before anything is compared
GateOutcome(net, current_edge, next_edge, occupancy, blocked_edges, sig, closed) ==
    IF "capacity" \notin DOMAIN next_edge
    THEN [raised |-> TRUE, error |-> "OverflowError", value |-> FALSE]
    ELSE [raised |-> FALSE, error |-> "",
          value |-> CanEnterNextEdge(net, current_edge, next_edge, occupancy,
                                     blocked_edges, sig, closed)]

\* the entry-gate lambda handed to Vehicle.step, tabulated for the vehicle v:
\* answers[k] is its answer for leaving the k-th edge of the route
GateFor(net, v, occupancy, blocked_edges, sig, closed) ==
    [present |-> TRUE,
     answers |-> [k \in 1..(Len(v.route) - 1) |->
                    CanEnterNextEdge(net, v.route[k], v.route[k + 1],
                                     occupancy, blocked_edges, sig, closed)]]

\* what the gate was asked during one step, with what was then the case
GateLog(net, v, calls, occupancy, blocked_edges, sig, closed) ==
    LET asked == SelectSeq(calls, LAMBDA c : c.queried)
    IN [k \in DOMAIN asked |->
          LET current_edge == v.route[asked[k].from_index + 1]
              next_edge == v.route[asked[k].from_index + 2]
          IN [vehicle_id |-> v.vehicle_id,
              current_edge |-> current_edge.id,
              next_edge |-> next_edge.id,
              occupancy |-> Get(occupancy, next_edge.id, 0),
              capacity |-> next_edge.capacity,
              blocked |-> next_edge.id \in blocked_edges,
              closed |-> next_edge.id \in closed,
              signals_present |-> sig.present,
              permitted |-> SignalsCanEnter(net, sig, current_edge, next_edge),
              crossed |-> asked[k].to_index = asked[k].from_index + 1]]

\* a sweep that hands no leader to any vehicle
QueueLeader_Nobody(vs, leader_index) == NoLeader

\* the leader variable of the inner loop of tick: nobody (index 0) or the
\* vehicle stepped just before, as it is now
QueueLeader(vs, leader_index) ==
    IF leader_index = 0 THEN NoLeader ELSE LeaderOf(vs[leader_index])

\* the body of the inner loop of tick for the vehicle of fleet index i
StepInQueue(env, st, i, leader_index) ==
    LET v == st.vehicles[i]
        before_edge == CurrentEdgeId(v)
        leader == QueueLeader(st.vehicles, leader_index)
        After(r) ==
            LET after_edge == CurrentEdgeId(r.veh)
                left == Put(st.occupancy, before_edge,
                            Max(0, Get(st.occupancy, before_edge, 1) - 1))
                occupancy == IF r.veh.arrived THEN left
                             ELSE IF after_edge # before_edge
                                  THEN Put(left, after_edge, Get(left, after_edge, 0) + 1)
                                  ELSE st.occupancy
            IN [vehicles |-> [st.vehicles EXCEPT ![i] = r.veh],
                occupancy |-> occupancy,
                blocked_edges |-> IF r.veh.stuck THEN st.blocked_edges \cup {after_edge}
                                  ELSE st.blocked_edges,
                log |-> st.log \o GateLog(env.network, v, r.calls, st.occupancy,
                                          st.blocked_edges, env.signals, env.closed_edges),
                steps |-> Append(st.steps, [index |-> i, edge_id |-> before_edge,
                                            leader_index |-> leader_index,
                                            leader |-> leader])]
    IN Only({After(r) : r \in
               UNION {{StepResult(v, env.dt, leader, gate)} : gate \in
                        {GateFor(env.network, v, st.occupancy, st.blocked_edges,
                                 env.signals, env.closed_edges)}}})

\* the inner loop of tick over one edge's queue, from its k-th vehicle on
RECURSIVE StepQueue(_, _, _, _, _)
StepQueue(env, st, queue, k, leader_index) ==
    IF k > Len(queue) THEN st
    ELSE Only({StepQueue(env, next, queue, k + 1,
                         IF next.vehicles[queue[k]].arrived THEN 0 ELSE queue[k])
               : next \in {StepInQueue(env, st, queue[k], leader_index)}})

\* an outer loop that reads each edge's queue from where the vehicles are when
\* the edge's turn comes, not from the index built before the sweep
RECURSIVE StepEdges_Live(_, _, _, _)
StepEdges_Live(env, st, ordering, k) ==
    IF k > Len(ordering) THEN st
    ELSE LET live == SelectSeq([i \in 1..Len(st.vehicles) |-> i],
                               LAMBDA i : /\ ~st.vehicles[i].arrived
                                          /\ CurrentEdgeId(st.vehicles[i]) = ordering[k].edge_id)
         IN Only({StepEdges_Live(env, next, ordering, k + 1)
                  : next \in {StepQueue(env, st, live, 1, 0)}})

\* the outer loop of tick over ordering.values(), from the k-th edge on
RECURSIVE StepEdges(_, _, _, _)
StepEdges(env, st, ordering, k) ==
    IF k > Len(ordering) THEN st
    ELSE Only({StepEdges(env, next, ordering, k + 1)
               : next \in {StepQueue(env, st, ordering[k].queue, 1, 0)}})

\* VehicleSpawner.tick after the spawn: build the index, sweep, remove the arrived
\* (swept and steps keep, for the properties, the fleet as it was just before the
\* removal and the calls of Vehicle.step in the order they were made)
Sweep(net, vs, sig, closed, dt) ==
    LET env == [network |-> net, signals |-> sig, closed_edges |-> closed, dt |-> dt]
        Start(built) == [vehicles |-> vs, occupancy |-> built.occupancy,
                         blocked_edges |-> BlockedEdges(built.ordering, vs), log |-> <<>>,
                         steps |-> <<>>]
        End(done) == [vehicles |-> RemoveArrived(done.swept.vehicles),
                     last_queue_lengths |-> done.swept.occupancy,
                     blocked_edges |-> done.swept.blocked_edges,
                     blocked_start |-> done.start.blocked_edges,
                     occupancy_built |-> done.start.occupancy,
                     log |-> done.swept.log,
                     swept |-> done.swept.vehicles,
                     steps |-> done.swept.steps]
    IN Only({End(done) : done \in
               UNION {{[start |-> start, swept |-> StepEdges(env, start, built.ordering, 1)]
                       : start \in {Start(built)}}
                      : built \in {SpatialIndexBuild(vs)}}})

\* SimulationConfig.tick_duration
TickDuration == 10

\* the networks, spawner settings and signal timings of the fleet runs
Node(id, row, col) == [id |-> id, row |-> row, col |-> col]
Networks ==
    { [nodes |-> {Node("n_0_0", 0, 0), Node("n_0_1", 0, 1), Node("n_0_2", 0, 2),
                  Node("n_1_1", 1, 1), Node("n_1_2", 1, 2)},
       edges |-> {Edge("eA", "n_0_0", "n_0_1", 30, 30, 2),
                  Edge("eB", "n_0_1", "n_0_2", 40, 30, 1),
                  Edge("eC", "n_1_1", "n_0_1", 20, 30, 2),
                  Edge("eD", "n_0_2", "n_1_2", 30, 30, 2),
                  Edge("eE", "n_1_2", "n_0_2", 30, 30, 2)}] }
Spawners ==
    { [tick_counter |-> 0, spawn_interval |-> 2, max_vehicles |-> 2,
       destinations |-> {"n_1_2"}, patiences |-> {10}],
      [tick_counter |-> 0, spawn_interval |-> 3, max_vehicles |-> 1,
       destinations |-> {"n_1_2"}, patiences |-> {10}] }
SignalTimings == { [p \in Phases |-> 20] }
ClosableEdges == {"eD"}

\* what the last call of tick did: whether it raised, whether a spawn was due,
\* the fleet after the spawn (entered) and after the sweep (swept), the gate
\* queries (log) and the calls of Vehicle.step (steps)
NoTickYet ==
    [ticked |-> FALSE, raised |-> FALSE, due |-> FALSE, size_before |-> 0,
     counter_before |-> 0, entered |-> <<>>, swept |-> <<>>, log |-> <<>>, steps |-> <<>>,
     spawn |-> NoSpawn, ids |-> <<>>, blocked_prev |-> {}, blocked_start |-> {},
     blocked_end |-> {}, occupancy_built |-> EmptyDict]

FleetInit ==
    /\ network \in Networks
    /\ spawner \in Spawners
    /\ vehicles = <<>>
    /\ last_queue_lengths = <<>>
    /\ signals \in {NoSignals}
                   \cup {NewSignals(network, d, p) : d \in SignalTimings, p \in Phases}
    /\ closed_edges = {}
    /\ fleetHist = NoTickYet

\* the fleet of a specification that never ticks it
FleetIdle ==
    /\ network = [nodes |-> {}, edges |-> {}]
    /\ spawner = [tick_counter |-> 0, spawn_interval |-> 1, max_vehicles |-> 0,
                  destinations |-> {}, patiences |-> {10}]
    /\ vehicles = <<>>
    /\ last_queue_lengths = <<>>
    /\ signals = NoSignals
    /\ closed_edges = {}
    /\ fleetHist = NoTickYet

\* VehicleSpawner.tick(state, tick, dt) as the engine's only agent: the callback
\* runs, then the engine's tick counter advances; a ValueError of the spawn
\* leaves the call before anything else is done
VehicleSpawner_tick ==
    /\ tick < MaxFleetTicks
    /\ LET due == SpawnDue(spawner, vehicles)
           outcomes == IF due THEN SpawnVehicle(network, spawner, vehicles, tick)
                       ELSE {[status |-> "ok", vehicles |-> vehicles, spawn |-> NoSpawn]}
       IN \E o \in outcomes :
             IF o.status = "ok"
             THEN \E r \in {Sweep(network, o.vehicles, signals, closed_edges, TickDuration)} :
                     /\ vehicles' = r.vehicles
                     /\ last_queue_lengths' = r.last_queue_lengths
                     /\ spawner' = [spawner EXCEPT !.tick_counter = @ + 1]
                     /\ fleetHist' = [ticked |-> TRUE, raised |-> FALSE, due |-> due,
                                      size_before |-> Len(vehicles),
                                      counter_before |-> spawner.tick_counter,
                                      entered |-> o.vehicles, swept |-> r.swept,
                                      log |-> r.log, steps |-> r.steps,
                                      spawn |-> o.spawn,
                                      ids |-> IF o.spawn.happened
                                              THEN Append(fleetHist.ids, o.spawn.vehicle_id)
                                              ELSE fleetHist.ids,
                                      blocked_prev |-> fleetHist.blocked_end,
                                      blocked_start |-> r.blocked_start,
                                      blocked_end |-> r.blocked_edges,
                                      occupancy_built |-> r.occupancy_built]
                     /\ tick' = tick + 1
             ELSE /\ fleetHist' = [NoTickYet EXCEPT !.ticked = TRUE, !.raised = TRUE,
                                     !.due = due, !.size_before = Len(vehicles),
                                     !.counter_before = spawner.tick_counter,
                                     !.entered = vehicles, !.ids = fleetHist.ids]
                  /\ UNCHANGED <<vehicles, last_queue_lengths, spawner, tick>>
    /\ UNCHANGED <<network, signals, closed_edges>>
    /\ UNCHANGED <<agents, schedule, registered, invocations, lastAdvance>>
    /\ UNCHANGED <<lightVars, routerVars, vehicleVars, runtimeVars>>

\* TrafficSignalController.tick(dt)
TrafficSignalController_tick ==
    /\ signals.present
    /\ signals' = [signals EXCEPT !.lights =
                      [n \in DOMAIN signals.lights |->
                          LightTick(signals.lights[n], signals.phase_durations, TickDuration)]]
    /\ UNCHANGED <<network, spawner, vehicles, last_queue_lengths, closed_edges, fleetHist>>
    /\ UNCHANGED <<engineVars, lightVars, routerVars, vehicleVars, runtimeVars>>

\* SimulationRuntime.toggle_edge_closure(edge_id)
toggle_edge_closure(edge_id) ==
    /\ closed_edges' = IF edge_id \in closed_edges THEN closed_edges \ {edge_id}
                       ELSE closed_edges \cup {edge_id}
    /\ UNCHANGED <<network, spawner, vehicles, last_queue_lengths, signals, fleetHist>>
    /\ UNCHANGED <<engineVars, lightVars, routerVars, vehicleVars, runtimeVars>>

NextFleet ==
    \/ VehicleSpawner_tick
    \/ TrafficSignalController_tick
    \/ \E e \in ClosableEdges : toggle_edge_closure(e)

(***************************************************************************)
(* TrafficSignalController.can_enter on its own                            *)
(***************************************************************************)
\* two dicts merged, the left one winning
Merge(a, b) == [k \in DOMAIN a \cup DOMAIN b |-> IF k \in DOMAIN a THEN a[k] ELSE b[k]]

\* the ways a node dict can carry (or lack) its row and its column
RowShapes == {EmptyDict, [row |-> 0], [row |-> 1], [y |-> 1], [row |-> 0, y |-> 1]}
ColShapes == {EmptyDict, [col |-> 0], [col |-> 1], [x |-> 1], [col |-> 0, x |-> 1]}
NodeShapes(id) == {Merge([id |-> id], Merge(r, c)) : r \in RowShapes, c \in ColShapes}

\* the edges handed to can_enter: "n_x" is the id of no node of the network
SignalEdges ==
    {Edge("e1", "n_a", "n_b", 30, 30, 2), Edge("e2", "n_b", "n_a", 30, 30, 2),
     Edge("e3", "n_x", "n_b", 30, 30, 2), Edge("e4", "n_a", "n_x", 30, 30, 2)}

SignalsInit ==
    /\ \E a \in NodeShapes("n_a"), b \in NodeShapes("n_b") :
          network = [nodes |-> {a, b}, edges |-> SignalEdges]
    /\ \E d \in SignalTimings, p \in Phases : signals = NewSignals(network, d, p)
    /\ spawner = [tick_counter |-> 0, spawn_interval |-> 1, max_vehicles |-> 0,
                  destinations |-> {}, patiences |-> {10}]
    /\ vehicles = <<>>
    /\ last_queue_lengths = <<>>
    /\ closed_edges = {}
    /\ fleetHist = [asked |-> FALSE]

\* TrafficSignalController.can_enter(current_edge, next_edge)
TrafficSignalController_can_enter(current_edge, next_edge) ==
    /\ fleetHist' = [asked |-> TRUE, current_edge |-> current_edge, next_edge |-> next_edge,
                     answer |-> SignalsCanEnter(network, signals, current_edge, next_edge)]
    /\ UNCHANGED <<network, spawner, vehicles, last_queue_lengths, signals, closed_edges>>
    /\ UNCHANGED <<engineVars, lightVars, routerVars, vehicleVars, runtimeVars>>

NextSignals ==
    \E current_edge \in SignalEdges, next_edge \in SignalEdges :
        TrafficSignalController_can_enter(current_edge, next_edge)

(***************************************************************************)
(* EdgeSpatialIndex.build on its own                                       *)
(***************************************************************************)
MaxIndexed == 3

\* positions on both sides of the bucket boundaries at 20 m and 40 m
IndexedPositions == {50, 199, 200, 410}
IndexedEdges == {Edge("e1", "n_0_0", "n_0_1", 500, 30, 9), Edge("e2", "n_0_1", "n_0_2", 500, 30, 9)}

\* a vehicle on its way along a one-edge route, or one that has arrived
IndexedVehicles(id) ==
    {[NewVehicle(id, <<e>>, 10) EXCEPT !.position = position]
        : e \in IndexedEdges, position \in IndexedPositions}
    \cup {[NewVehicle(id, <<e>>, 10) EXCEPT !.arrived = TRUE, !.current_edge_index = 1]
            : e \in IndexedEdges}

RECURSIVE Fleets(_)
Fleets(n) ==
    IF n = 0 THEN {<<>>}
    ELSE Fleets(n - 1) \cup
         {Append(vs, v) : vs \in {f \in Fleets(n - 1) : Len(f) = n - 1},
                          v \in IndexedVehicles(<<0, n - 1>>)}

IndexInit ==
    /\ vehicles \in Fleets(MaxIndexed)
    /\ network = [nodes |-> {}, edges |-> IndexedEdges]
    /\ spawner = [tick_counter |-> 0, spawn_interval |-> 1, max_vehicles |-> 0,
                  destinations |-> {}, patiences |-> {10}]
    /\ last_queue_lengths = <<>>
    /\ signals = NoSignals
    /\ closed_edges = {}
    /\ fleetHist = [built |-> FALSE]

\* EdgeSpatialIndex.build(self.vehicles.values())
EdgeSpatialIndex_build ==
    /\ \E r \in {SpatialIndexBuild(vehicles)} :
          fleetHist' = [built |-> TRUE, ordering |-> r.ordering, occupancy |-> r.occupancy]
    /\ UNCHANGED <<network, spawner, vehicles, last_queue_lengths, signals, closed_edges>>
    /\ UNCHANGED <<engineVars, lightVars, routerVars, vehicleVars, runtimeVars>>

NextIndex == EdgeSpatialIndex_build

(***************************************************************************)
(* VehicleSpawner._can_enter_next_edge on its own                          *)
(***************************************************************************)
\* an edge dict without the capacity key
EdgeWithoutCapacity(id, from, to, length, speed_limit) ==
    [id |-> id, from |-> from, to |-> to, length |-> length, speed_limit |-> speed_limit]

\* the arguments of the gate: the edge left, the edge asked for (with and
\* without capacity), the occupancy dict, the blocked and the closed set
GateCurrentEdges ==
    {Edge("eA", "n_0_0", "n_0_1", 30, 30, 2), Edge("eC", "n_1_1", "n_0_1", 20, 30, 2)}
GateNextEdges ==
    {Edge("eB", "n_0_1", "n_0_2", 40, 30, 1), Edge("eB", "n_0_1", "n_0_2", 40, 30, 2),
     EdgeWithoutCapacity("eB", "n_0_1", "n_0_2", 40, 30)}
GateOccupancies == {EmptyDict} \cup {[e \in {"eB"} |-> n] : n \in 0..3}
GateEdgeSets == {{}, {"eB"}, {"eA"}}

GateInit ==
    /\ network \in Networks
    /\ signals \in {NoSignals}
                   \cup {NewSignals(network, d, p) : d \in SignalTimings, p \in Phases}
    /\ spawner = [tick_counter |-> 0, spawn_interval |-> 1, max_vehicles |-> 0,
                  destinations |-> {}, patiences |-> {10}]
    /\ vehicles = <<>>
    /\ last_queue_lengths = <<>>
    /\ closed_edges = {}
    /\ fleetHist = [asked |-> FALSE]

\* self._can_enter_next_edge(cur, nxt, occ, blocked, signals, closed_edges)
VehicleSpawner_can_enter_next_edge(current_edge, next_edge, occupancy, blocked_edges, closed) ==
    /\ fleetHist' = [asked |-> TRUE, current_edge |-> current_edge,
                     next_edge |-> next_edge, occupancy |-> occupancy,
                     blocked_edges |-> blocked_edges, closed |-> closed,
                     outcome |-> GateOutcome(network, current_edge, next_edge, occupancy,
                                             blocked_edges, signals, closed)]
    /\ UNCHANGED <<network, spawner, vehicles, last_queue_lengths, signals, closed_edges>>
    /\ UNCHANGED <<engineVars, lightVars, routerVars, vehicleVars, runtimeVars>>

NextGate ==
    \E current_edge \in GateCurrentEdges, next_edge \in GateNextEdges,
       occupancy \in GateOccupancies, blocked_edges \in GateEdgeSets, closed \in GateEdgeSets :
        VehicleSpawner_can_enter_next_edge(current_edge, next_edge, occupancy,
                                           blocked_edges, closed)

(***************************************************************************)
(* The fleet on networks where a route cannot always be built              *)
(***************************************************************************)
\* a network of one node and no edge, and a row of three nodes whose only edge
\* stops one node short of the destination n_0_2
DeadEndNetworks ==
    { [nodes |-> {Node("n_0_0", 0, 0)}, edges |-> {}],
      [nodes |-> {Node("n_0_0", 0, 0), Node("n_0_1", 0, 1), Node("n_0_2", 0, 2)},
       edges |-> {Edge("eA", "n_0_0", "n_0_1", 30, 30, 2)}] }
DeadEndSpawners ==
    { [tick_counter |-> 0, spawn_interval |-> 1, max_vehicles |-> 2,
       destinations |-> {"n_0_2"}, patiences |-> {10}],
      [tick_counter |-> 0, spawn_interval |-> 2, max_vehicles |-> 1,
       destinations |-> {"n_0_2"}, patiences |-> {10}] }

DeadEndInit ==
    /\ network \in DeadEndNetworks
    /\ spawner \in DeadEndSpawners
    /\ vehicles = <<>>
    /\ last_queue_lengths = <<>>
    /\ signals \in {NoSignals}
                   \cup {NewSignals(network, d, p) : d \in SignalTimings, p \in Phases}
    /\ closed_edges = {}
    /\ fleetHist = NoTickYet

(***************************************************************************)
(* SimulationRuntime: the tick thread and the callers of the runtime       *)
(***************************************************************************)
MaxRuntimeTicks == 2
Callers == {"api1", "api2"}
Threads == {"loop"} \cup Callers
RuntimeEdgeIds == {"e1"}
NoPreset == "None"
Presets == [name \in {"Sunday Morning", "Rush Hour"} |->
              IF name = "Sunday Morning"
              THEN [spawn_interval |-> 4, signal_timings |-> [NS |-> 280, EW |-> 280]]
              ELSE [spawn_interval |-> 1, signal_timings |-> [NS |-> 400, EW |-> 320]]]
PresetNames == DOMAIN Presets \cup {"Night"}
SpawnIntervalInputs == {0, 2}

\* what a call that has not returned yet has returned
NothingReturned == [op |-> "none", raised |-> "none"]
\* the latest read or write of simulation state: by whom, in which operation,
\* whether that thread held the lock and whether a tick was in progress
NoAccess == [thread |-> "none", op |-> "none", kind |-> "none",
             held |-> TRUE, ticking |-> FALSE]

\* SimulationRuntime.__post_init__, with a network without nodes and a spawner
\* that admits no vehicle
RuntimeInit ==
    /\ runtime = [lock |-> "free",
                  pc |-> [t \in Threads |-> "idle"],
                  arg |-> [t \in Callers |-> ""],
                  toggled_to |-> [t \in Callers |-> FALSE],
                  active_preset |-> NoPreset,
                  metrics_tick |-> 0,
                  returned |-> [t \in Callers |-> NothingReturned],
                  access |-> NoAccess]
    /\ network = [nodes |-> {}, edges |-> {}]
    /\ spawner = [tick_counter |-> 0, spawn_interval |-> 1, max_vehicles |-> 0,
                  destinations |-> {}, patiences |-> {10}]
    /\ vehicles = <<>>
    /\ last_queue_lengths = <<>>
    /\ signals = NoSignals
    /\ closed_edges = {}
    /\ fleetHist = NoTickYet

TickInProgress == runtime.pc["loop"] \in {"callbacks", "increment"}

Access(t, op, kind) ==
    [thread |-> t, op |-> op, kind |-> kind, held |-> TRUE, ticking |-> FALSE]

\* _run_loop: `with self._lock:` entered
run_loop_acquire ==
    /\ tick < MaxRuntimeTicks
    /\ runtime.pc["loop"] = "idle"
    /\ runtime.lock = "free"
    /\ runtime' = [runtime EXCEPT !.lock = "loop", !.pc["loop"] = "callbacks"]
    /\ UNCHANGED <<engineVars, lightVars, routerVars, vehicleVars, fleetVars>>

\* _run_loop: advance_tick runs the callbacks of the tick; the spawner's tick on
\* its empty fleet counts the tick and admits nobody
run_loop_callbacks ==
    /\ runtime.pc["loop"] = "callbacks"
    /\ spawner' = [spawner EXCEPT !.tick_counter = @ + 1]
    /\ runtime' = [runtime EXCEPT !.pc["loop"] = "increment",
                                  !.access = Access("loop", "advance_tick", "write")]
    /\ UNCHANGED <<network, vehicles, last_queue_lengths, signals, closed_edges, fleetHist>>
    /\ UNCHANGED <<engineVars, lightVars, routerVars, vehicleVars>>

\* _run_loop: advance_tick increments the tick, _update_metrics appends the
\* snapshot of that tick
run_loop_increment ==
    /\ runtime.pc["loop"] = "increment"
    /\ tick' = tick + 1
    /\ runtime' = [runtime EXCEPT !.pc["loop"] = "release",
                                  !.metrics_tick = tick + 1,
                                  !.access = Access("loop", "advance_tick", "write")]
    /\ UNCHANGED <<agents, schedule, registered, invocations, lastAdvance>>
    /\ UNCHANGED <<lightVars, routerVars, vehicleVars, fleetVars>>

\* _run_loop: the `with` block is left
run_loop_release ==
    /\ runtime.pc["loop"] = "release"
    /\ runtime' = [runtime EXCEPT !.lock = "free", !.pc["loop"] = "idle"]
    /\ UNCHANGED <<engineVars, lightVars, routerVars, vehicleVars, fleetVars>>

\* snapshot(): the whole body, the return value included, is inside the `with`
SimulationRuntime_snapshot(t) ==
    /\ runtime.pc[t] = "idle"
    /\ runtime.lock = "free"
    /\ runtime' = [runtime EXCEPT
          !.returned[t] = [op |-> "snapshot", raised |-> "none",
                           tick |-> tick,
                           tick_counter |-> spawner.tick_counter,
                           metrics_tick |-> runtime.metrics_tick,
                           closed_edges |-> closed_edges,
                           spawn_interval |-> spawner.spawn_interval,
                           active_preset |-> runtime.active_preset],
          !.access = Access(t, "snapshot", "read")]
    /\ UNCHANGED <<engineVars, lightVars, routerVars, vehicleVars, fleetVars>>

\* update_spawn_interval(interval): the write is inside the `with`, the value
\* returned is the local one
SimulationRuntime_update_spawn_interval(t, interval) ==
    /\ runtime.pc[t] = "idle"
    /\ runtime.lock = "free"
    /\ spawner' = [spawner EXCEPT !.spawn_interval = Max(1, interval)]
    /\ runtime' = [runtime EXCEPT
          !.active_preset = NoPreset,
          !.returned[t] = [op |-> "update_spawn_interval", raised |-> "none",
                           spawn_interval |-> Max(1, interval)],
          !.access = Access(t, "update_spawn_interval", "write")]
    /\ UNCHANGED <<network, vehicles, last_queue_lengths, signals, closed_edges, fleetHist>>
    /\ UNCHANGED <<engineVars, lightVars, routerVars, vehicleVars>>

\* update_signal_timings(ns, ew): inside the `with` it calls
\* update_phase_durations, which TrafficSignalController does not have; the
\* AttributeError leaves the block before active_preset is reset
SimulationRuntime_update_signal_timings(t) ==
    /\ runtime.pc[t] = "idle"
    /\ runtime.lock = "free"
    /\ runtime' = [runtime EXCEPT
          !.returned[t] = [op |-> "update_signal_timings", raised |-> "AttributeError"],
          !.access = Access(t, "update_signal_timings", "read")]
    /\ UNCHANGED <<engineVars, lightVars, routerVars, vehicleVars, fleetVars>>

\* apply_preset(name): an unknown name raises before the lock is taken; a known
\* preset sets the spawn interval inside the `with`, and as each preset has
\* signal timings, the call of update_phase_durations then raises
SimulationRuntime_apply_preset(t, name) ==
    /\ runtime.pc[t] = "idle"
    /\ IF name \notin DOMAIN Presets
       THEN /\ runtime' = [runtime EXCEPT
                  !.returned[t] = [op |-> "apply_preset", raised |-> "ValueError"]]
            /\ UNCHANGED spawner
       ELSE /\ runtime.lock = "free"
            /\ spawner' = [spawner EXCEPT
                  !.spawn_interval = Max(Presets[name].spawn_interval, 1)]
            /\ runtime' = [runtime EXCEPT
                  !.returned[t] = [op |-> "apply_preset", raised |-> "AttributeError"],
                  !.access = Access(t, "apply_preset", "write")]
    /\ UNCHANGED <<network, vehicles, last_queue_lengths, signals, closed_edges, fleetHist>>
    /\ UNCHANGED <<engineVars, lightVars, routerVars, vehicleVars>>

\* toggle_edge_closure(edge_id), the `with` block: the set is changed
SimulationRuntime_toggle_edge_closure(t, edge_id) ==
    /\ runtime.pc[t] = "idle"
    /\ runtime.lock = "free"
    /\ closed_edges' = IF edge_id \in closed_edges THEN closed_edges \ {edge_id}
                       ELSE closed_edges \cup {edge_id}
    /\ runtime' = [runtime EXCEPT
          !.pc[t] = "toggle_return",
          !.arg[t] = edge_id,
          !.toggled_to[t] = edge_id \notin closed_edges,
          !.returned[t] = NothingReturned,
          !.access = Access(t, "toggle_edge_closure", "write")]
    /\ UNCHANGED <<network, spawner, vehicles, last_queue_lengths, signals, fleetHist>>
    /\ UNCHANGED <<engineVars, lightVars, routerVars, vehicleVars>>

\* toggle_edge_closure(edge_id), the return statement after the `with` block:
\* `edge_id in self.closed_edges` is evaluated now
SimulationRuntime_toggle_edge_closure_return(t) ==
    /\ runtime.pc[t] = "toggle_return"
    /\ runtime' = [runtime EXCEPT
          !.pc[t] = "idle",
          !.returned[t] = [op |-> "toggle_edge_closure", raised |-> "none",
                           edge_id |-> runtime.arg[t],
                           closed |-> runtime.arg[t] \in closed_edges],
          !.access = [thread |-> t, op |-> "toggle_edge_closure", kind |-> "read",
                      held |-> runtime.lock = t, ticking |-> TickInProgress]]
    /\ UNCHANGED <<engineVars, lightVars, routerVars, vehicleVars, fleetVars>>

NextRuntime ==
    \/ run_loop_acquire
    \/ run_loop_callbacks
    \/ run_loop_increment
    \/ run_loop_release
    \/ \E t \in Callers : SimulationRuntime_snapshot(t)
    \/ \E t \in Callers, i \in SpawnIntervalInputs : SimulationRuntime_update_spawn_interval(t, i)
    \/ \E t \in Callers : SimulationRuntime_update_signal_timings(t)
    \/ \E t \in Callers, n \in PresetNames : SimulationRuntime_apply_preset(t, n)
    \/ \E t \in Callers, e \in RuntimeEdgeIds : SimulationRuntime_toggle_edge_closure(t, e)
    \/ \E t \in Callers : SimulationRuntime_toggle_edge_closure_return(t)

(***************************************************************************)
(* Vehicle.compute_acceleration on its own                                 *)
(***************************************************************************)
AccelSpeedLimits == {0, 200, 300}
AccelPatiences == {8, 10, 12}
AccelPositions == {0, 50}
AccelVelocities == {0, 80, 100, 250}
\* the leaders tried with the vehicle v: nobody, and vehicles on v's edge and
\* on another one whose rear is g ahead of v (overlapping v for g < 0), standing
\* or as fast as v (as fast as v when they overlap)
AccelGaps == {-5, 30, 150}
AccelLeaders(v) ==
    {NoLeader} \cup {Leader(e, v.position + VehicleLength + g, w) :
                        e \in {"edge_a", "edge_b"},
                        g \in {h \in AccelGaps : h >= 1},
                        w \in {0, v.velocity}}
               \cup {Leader(e, v.position + VehicleLength + g, v.velocity) :
                        e \in {"edge_a", "edge_b"},
                        g \in {h \in AccelGaps : h < 1}}

AccelInit ==
    /\ \E speed_limit \in AccelSpeedLimits, patience \in AccelPatiences,
          position \in AccelPositions, velocity \in AccelVelocities :
          veh = [NewVehicle("v1", <<Edge("edge_a", "n_0_0", "n_0_1", 100, speed_limit, 2)>>,
                            patience)
                    EXCEPT !.position = position, !.velocity = velocity]
    /\ stepHist = [computed |-> FALSE]
    /\ consec = 0

\* Vehicle.compute_acceleration(leader, dt): nothing is written
Vehicle_compute_acceleration(leader) ==
    /\ stepHist' = [computed |-> TRUE, leader |-> leader,
                    result |-> ComputeAcceleration(veh, leader)]
    /\ UNCHANGED <<veh, consec>>
    /\ UNCHANGED <<engineVars, lightVars, routerVars, fleetVars, runtimeVars>>

NextAccel == \E leader \in AccelLeaders(veh) : Vehicle_compute_acceleration(leader)

(***************************************************************************)
(* The fleet on a network where vehicles come to a standstill              *)
(***************************************************************************)
\* a row of three nodes and one node below its first: on eA (speed limit 0)
\* every vehicle stops where it is; eZ leads into eA. And a row of three nodes
\* whose 3 m edge eF leads into eG (speed limit 0)
GridlockNetworks ==
    { [nodes |-> {Node("n_0_0", 0, 0), Node("n_0_1", 0, 1), Node("n_0_2", 0, 2),
                  Node("n_1_0", 1, 0)},
       edges |-> {Edge("eA", "n_0_0", "n_0_1", 100, 0, 2),
                  Edge("eB", "n_0_1", "n_0_2", 30, 30, 1),
                  Edge("eZ", "n_1_0", "n_0_0", 10, 30, 2)}],
      [nodes |-> {Node("n_0_0", 0, 0), Node("n_0_1", 0, 1), Node("n_0_2", 0, 2)},
       edges |-> {Edge("eF", "n_0_0", "n_0_1", 30, 30, 2),
                  Edge("eG", "n_0_1", "n_0_2", 100, 0, 2)}] }
GridlockSpawners ==
    { [tick_counter |-> 0, spawn_interval |-> 1, max_vehicles |-> 2,
       destinations |-> {"n_0_2"}, patiences |-> {8, 10}],
      [tick_counter |-> 0, spawn_interval |-> 3, max_vehicles |-> 2,
       destinations |-> {"n_0_2"}, patiences |-> {8, 12}] }
GridlockClosures == {{}, {"eA"}}

GridlockInit ==
    /\ network \in GridlockNetworks
    /\ spawner \in GridlockSpawners
    /\ vehicles = <<>>
    /\ last_queue_lengths = <<>>
    /\ signals = NoSignals
    /\ closed_edges \in GridlockClosures
    /\ fleetHist = NoTickYet

NextGridlock == VehicleSpawner_tick

(***************************************************************************)
(* VehicleSpawner._build_route followed pass by pass of its while loop     *)
(***************************************************************************)
\* three nodes in a row where n_0_0 and n_0_1 lead to each other only, with a
\* node n_1_2 that no edge leaves; and a corner where n_0_1 and n_0_2 lead to
\* each other only
WalkNetworks ==
    { [nodes |-> {Node("n_0_0", 0, 0), Node("n_0_1", 0, 1), Node("n_0_2", 0, 2),
                  Node("n_1_2", 1, 2)},
       edges |-> {Edge("eA", "n_0_0", "n_0_1", 30, 30, 2),
                  Edge("eB", "n_0_1", "n_0_0", 30, 30, 2),
                  Edge("eC", "n_0_2", "n_0_1", 30, 30, 2)}],
      [nodes |-> {Node("n_0_1", 0, 1), Node("n_0_2", 0, 2), Node("n_1_1", 1, 1)},
       edges |-> {Edge("eF", "n_0_1", "n_0_2", 30, 30, 2),
                  Edge("eG", "n_0_2", "n_0_1", 30, 30, 2),
                  Edge("eH", "n_1_1", "n_0_1", 30, 30, 2)}] }
\* destinations None: every node of the network may be drawn
WalkSpawners ==
    { [tick_counter |-> 0, spawn_interval |-> 1, max_vehicles |-> 2,
       destinations |-> {}, patiences |-> {10}],
      [tick_counter |-> 0, spawn_interval |-> 2, max_vehicles |-> 1,
       destinations |-> {}, patiences |-> {10}] }

\* no call of _build_route in progress; outcome tells how the latest tick ended
NotWalking ==
    [pc |-> "idle", outcome |-> "none", destination |-> "", current |-> "", route |-> <<>>,
     taken |-> 0, visited |-> {}, revisited |-> FALSE, tick_at_entry |-> 0,
     counter_at_entry |-> 0]

WalkInit ==
    /\ network \in WalkNetworks
    /\ spawner \in WalkSpawners
    /\ vehicles = <<>>
    /\ last_queue_lengths = <<>>
    /\ signals = NoSignals
    /\ closed_edges = {}
    /\ fleetHist = NotWalking

\* a pass of the while loop that will not go to a node the walk has been at
WalkIteration_Visited(net, w) ==
    LET fresh == {e \in StepOptions(net, w.current, w.destination) : e.to \notin w.visited}
    IN IF fresh = {} THEN {[w EXCEPT !.pc = "raised"]}
       ELSE {[w EXCEPT !.current = e.to,
                       !.route = IF w.taken < MaxRouteLen THEN Append(@, e) ELSE @,
                       !.taken = Min(@ + 1, MaxRouteLen + 1),
                       !.visited = @ \cup {e.to}] : e \in fresh}

\* one pass of the while loop of _build_route, entered away from the destination:
\* the ValueError, or an edge drawn from step_options and appended. The walk w
\* keeps the first MaxRouteLen edges of the route and counts the edges taken up
\* to MaxRouteLen + 1; visited and revisited tell where it has been
WalkIteration(net, w) ==
    LET step_options == StepOptions(net, w.current, w.destination)
    IN IF step_options = {} THEN {[w EXCEPT !.pc = "raised"]}
       ELSE {[w EXCEPT !.current = e.to,
                       !.route = IF w.taken < MaxRouteLen THEN Append(@, e) ELSE @,
                       !.taken = Min(@ + 1, MaxRouteLen + 1),
                       !.visited = @ \cup {e.to},
                       !.revisited = @ \/ e.to \in w.visited] : e \in step_options}

\* VehicleSpawner.tick from the index build on, with the fleet vs, and
\* advance_tick's increment after it
CompleteTick(vs, outcome) ==
    \E r \in {Sweep(network, vs, signals, closed_edges, TickDuration)} :
        /\ vehicles' = r.vehicles
        /\ last_queue_lengths' = r.last_queue_lengths
        /\ spawner' = [spawner EXCEPT !.tick_counter = @ + 1]
        /\ tick' = tick + 1
        /\ fleetHist' = [NotWalking EXCEPT !.outcome = outcome]
        /\ UNCHANGED <<network, signals, closed_edges>>
        /\ UNCHANGED <<agents, schedule, registered, invocations, lastAdvance>>
        /\ UNCHANGED <<lightVars, routerVars, vehicleVars, runtimeVars>>

\* advance_tick calls tick, the spawn is due, _spawn_vehicle draws a destination
\* and _build_route a start node, and the while loop is reached
build_route_enter ==
    /\ fleetHist.pc = "idle"
    /\ tick < MaxFleetTicks
    /\ SpawnDue(spawner, vehicles)
    /\ IF network.edges = {}
       THEN fleetHist' = [NotWalking EXCEPT !.outcome = "raised"]
       ELSE \E d \in ChooseDestination(network, spawner), start \in network.nodes :
               fleetHist' = [NotWalking EXCEPT !.pc = "walking", !.destination = d,
                                               !.current = start.id,
                                               !.visited = {start.id},
                                               !.tick_at_entry = tick,
                                               !.counter_at_entry = spawner.tick_counter]
    /\ UNCHANGED <<network, spawner, vehicles, last_queue_lengths, signals, closed_edges>>
    /\ UNCHANGED <<engineVars, lightVars, routerVars, vehicleVars, runtimeVars>>

\* one pass of the while loop; its ValueError leaves tick and advance_tick
build_route_iterate ==
    /\ fleetHist.pc = "walking"
    /\ Coords(network, fleetHist.current) # Coords(network, fleetHist.destination)
    /\ \E w \in WalkIteration(network, fleetHist) :
          fleetHist' = IF w.pc = "raised" THEN [NotWalking EXCEPT !.outcome = "raised"] ELSE w
    /\ UNCHANGED <<network, spawner, vehicles, last_queue_lengths, signals, closed_edges>>
    /\ UNCHANGED <<engineVars, lightVars, routerVars, vehicleVars, runtimeVars>>

\* the while loop ends at the destination: _build_route returns (an empty route
\* gets a random edge), the vehicle is made and the tick goes on to its end
build_route_return ==
    /\ fleetHist.pc = "walking"
    /\ Coords(network, fleetHist.current) = Coords(network, fleetHist.destination)
    /\ \E route \in (IF fleetHist.route = <<>> THEN {<<e>> : e \in network.edges}
                     ELSE {fleetHist.route}),
          patience \in spawner.patiences :
          LET vehicle_id == <<tick, Len(vehicles)>>
              vehicle == NewVehicle(vehicle_id, route, patience)
              replaced == \E i \in DOMAIN vehicles : vehicles[i].vehicle_id = vehicle_id
          IN CompleteTick(IF replaced
                          THEN [i \in DOMAIN vehicles |->
                                   IF vehicles[i].vehicle_id = vehicle_id THEN vehicle
                                   ELSE vehicles[i]]
                          ELSE Append(vehicles, vehicle),
                          "returned")

\* advance_tick calls tick and no spawn is due
tick_without_spawn ==
    /\ fleetHist.pc = "idle"
    /\ tick < MaxFleetTicks
    /\ ~SpawnDue(spawner, vehicles)
    /\ CompleteTick(vehicles, "none")

NextRouteWalk ==
    \/ build_route_enter
    \/ build_route_iterate
    \/ build_route_return
    \/ tick_without_spawn

(***************************************************************************)
(* A fleet going round a block under signals, ticked without end           *)
(***************************************************************************)
\* four one-way edges round one block: eA and eC (3 m) run along the rows, eB
\* and eD (30 m) along the columns; every speed limit is 3 m/s, every edge
\* holds two vehicles
RingNetworks ==
    { [nodes |-> {Node("n_0_0", 0, 0), Node("n_0_1", 0, 1), Node("n_1_0", 1, 0),
                  Node("n_1_1", 1, 1)},
       edges |-> {Edge("eA", "n_0_0", "n_0_1", 30, 30, 2),
                  Edge("eB", "n_0_1", "n_1_1", 300, 30, 2),
                  Edge("eC", "n_1_1", "n_1_0", 30, 30, 2),
                  Edge("eD", "n_1_0", "n_0_0", 300, 30, 2)}] }
\* the edge of the block that starts where edge e ends
RingNext(net, e) == CHOOSE f \in net.edges : f.from = e.to
\* one vehicle at the start of each edge of the block, bound for the end of the
\* edge after it, as the host of tests/test_signals.py places vehicles in
\* spawner.vehicles
RingVehicle(net, e) == NewVehicle(e.id, <<e, RingNext(net, e)>>, 10)
RingOrder == <<"eA", "eB", "eC", "eD">>
RingPick(net, chosen, k) == CHOOSE e \in net.edges : e.id = RingOrder[chosen[k]]
RingChoices == {c \in UNION {[1..n -> 1..4] : n \in 1..4} :
                   \A i, j \in DOMAIN c : i < j => c[i] < c[j]}
RingFleets(net) == {[k \in DOMAIN c |-> RingVehicle(net, RingPick(net, c, k))]
                    : c \in RingChoices}
\* VehicleSpawner(max_vehicles=0): a spawner that only sweeps
RingSpawner == [tick_counter |-> 0, spawn_interval |-> 1, max_vehicles |-> 0,
                destinations |-> {}, patiences |-> {10}]
RingTimings == { [p \in Phases |-> 200] }

RingInit ==
    /\ network \in RingNetworks
    /\ spawner = RingSpawner
    /\ vehicles \in RingFleets(network)
    /\ last_queue_lengths = <<>>
    /\ signals \in {NewSignals(network, d, p) : d \in RingTimings, p \in Phases}
    /\ closed_edges = {}
    /\ fleetHist = NoTickYet

\* counters that only grow are kept at the value from which the code no longer
\* tells them apart: stuck_ticks is only compared with the threshold of 5, and
\* _tick_counter is only read when the fleet is below max_vehicles
Settled(vs) == [i \in DOMAIN vs |->
                  [vs[i] EXCEPT !.stuck_ticks = Min(@, MaxStuckTicks)]]

\* one pass of the loop that drives the simulation: signals.tick(dt), then
\* spawner.tick(state, tick, dt), in the order the runtime registers the two
\* agents (and the order tests/test_signals.py calls them in)
signals_tick_then_spawner_tick ==
    /\ signals.present
    /\ ~SpawnDue(spawner, vehicles)
    /\ \E sig \in {[signals EXCEPT !.lights =
                      [n \in DOMAIN signals.lights |->
                          LightTick(signals.lights[n], signals.phase_durations,
                                    TickDuration)]]} :
       \E r \in {Sweep(network, vehicles, sig, closed_edges, TickDuration)} :
          /\ signals' = sig
          /\ vehicles' = Settled(r.vehicles)
          /\ last_queue_lengths' = r.last_queue_lengths
          /\ spawner' = [spawner EXCEPT !.tick_counter = Min(@ + 1, MaxFleetTicks)]
          /\ fleetHist' = [NoTickYet EXCEPT !.ticked = TRUE,
                              !.size_before = Len(vehicles),
                              !.entered = vehicles,
                              !.swept = Settled(r.swept),
                              !.log = r.log,
                              !.blocked_prev = fleetHist.blocked_end,
                              !.blocked_start = r.blocked_start,
                              !.blocked_end = r.blocked_edges,
                              !.occupancy_built = r.occupancy_built]
    /\ UNCHANGED <<network, closed_edges>>
    /\ UNCHANGED <<engineVars, lightVars, routerVars, vehicleVars, runtimeVars>>

NextRing == signals_tick_then_spawner_tick

(***************************************************************************)
(* Router (pathfinding/router.py)                                          *)
(*                                                                         *)
(* Edge weights (travel times) and the heuristic (a distance between node  *)
(* positions) are integers in thousandths; lengths and speed limits are in *)
(* tenths as elsewhere, node positions in whole units, and the congestion  *)
(* threshold in hundredths.                                                *)
(***************************************************************************)
MaxRouterCalls == 3
WeightScale == 1000
\* an upper limit of the square roots taken, in thousandths
RootLimit == 20000

\* math.sqrt, rounded down to the thousandth below: the root of n between lo and hi
RECURSIVE FloorSqrt(_, _, _)
FloorSqrt(n, lo, hi) ==
    IF lo = hi THEN lo
    ELSE IF ((lo + hi + 1) \div 2) * ((lo + hi + 1) \div 2) <= n
         THEN FloorSqrt(n, (lo + hi + 1) \div 2, hi)
         ELSE FloorSqrt(n, lo, ((lo + hi + 1) \div 2) - 1)

\* a node with a position
RouterNode(id, x, y) == [id |-> id, x |-> x, y |-> y]
\* Router._node_positions.get(node, (0.0, 0.0))
NodePosition(r, node) ==
    IF \E n \in r.network.nodes : n.id = node
    THEN CHOOSE n \in r.network.nodes : n.id = node
    ELSE RouterNode(node, 0, 0)

\* Router._heuristic(node, goal)
Heuristic(r, node, goal) ==
    IF ~r.use_a_star THEN 0
    ELSE FloorSqrt(((NodePosition(r, goal).x - NodePosition(r, node).x)
                      * (NodePosition(r, goal).x - NodePosition(r, node).x)
                    + (NodePosition(r, goal).y - NodePosition(r, node).y)
                      * (NodePosition(r, goal).y - NodePosition(r, node).y))
                   * WeightScale * WeightScale, 0, RootLimit)

\* Router._edge_weight(edge) of an edge that is not blocked
EdgeWeight(r, edge) ==
    LET speed == IF edge.speed_limit = 0 THEN 10 ELSE edge.speed_limit
        base_time == (edge.length * WeightScale) \div speed
        capacity == Max(1, edge.capacity)
        load == Get(r.edge_loads, edge.id, 0)
    IN (base_time * (capacity + load)) \div capacity

\* Router._neighbors(node_id): the outgoing edges of finite weight, in list order
Neighbors(r, node_id) ==
    SelectSeq(r.network.edges,
              LAMBDA e : e.from = node_id /\ e.id \notin r.blocked_edges)

\* the order of two heap entries (est_total, cost_so_far, node, path); node names
\* compare as strings, and two entries never agree on cost and node
NodeNames == <<"A", "B", "C", "D">>
NameRank(name) == CHOOSE k \in DOMAIN NodeNames : NodeNames[k] = name
HeapBefore(p, q) ==
    \/ p.est < q.est
    \/ p.est = q.est /\ p.cost < q.cost
    \/ p.est = q.est /\ p.cost = q.cost /\ NameRank(p.node) <= NameRank(q.node)

\* the for loop of plan_route over the neighbours of the popped entry
RECURSIVE PlanExpand(_, _, _, _, _, _)
PlanExpand(r, destination, top, edges, k, st) ==
    IF k > Len(edges) THEN st
    ELSE LET edge == edges[k]
             new_cost == top.cost + EdgeWeight(r, edge)
             next_node == edge.to
         IN IF next_node \notin DOMAIN st.best_costs \/ new_cost < st.best_costs[next_node]
            THEN PlanExpand(r, destination, top, edges, k + 1,
                    [queue |-> st.queue \cup
                                 {[est |-> new_cost + Heuristic(r, next_node, destination),
                                   cost |-> new_cost, node |-> next_node,
                                   path |-> Append(top.path, edge)]},
                     best_costs |-> Put(st.best_costs, next_node, new_cost)])
            ELSE PlanExpand(r, destination, top, edges, k + 1, st)

\* the while loop of plan_route: the popped entry is the least of the heap
RECURSIVE PlanLoop(_, _, _)
PlanLoop(r, destination, st) ==
    IF st.queue = {} THEN [status |-> "ValueError", route |-> <<>>]
    ELSE LET top == CHOOSE p \in st.queue : \A q \in st.queue : HeapBefore(p, q)
             rest == [st EXCEPT !.queue = @ \ {top}]
         IN IF top.node = destination THEN [status |-> "ok", route |-> top.path]
            ELSE IF top.cost > st.best_costs[top.node] THEN PlanLoop(r, destination, rest)
            ELSE PlanLoop(r, destination,
                          PlanExpand(r, destination, top, Neighbors(r, top.node), 1, rest))

\* Router.plan_route(start, destination): the route, or that ValueError is raised
PlanRoute(r, start, destination) ==
    IF start = destination THEN [status |-> "ok", route |-> <<>>]
    ELSE PlanLoop(r, destination,
                  [queue |-> {[est |-> 0, cost |-> 0, node |-> start, path |-> <<>>]},
                   best_costs |-> Put(EmptyDict, start, 0)])

\* Router._apply_route_load(route, delta): the loads after it
RECURSIVE ApplyRouteLoad(_, _, _, _)
ApplyRouteLoad(loads, route, delta, k) ==
    IF k > Len(route) THEN loads
    ELSE ApplyRouteLoad(Put(loads, route[k].id, Max(0, Get(loads, route[k].id, 0) + delta)),
                        route, delta, k + 1)

\* Router._remaining_route(vehicle_id) of a registered vehicle
RemainingRoute(state) ==
    IF \E idx \in DOMAIN state.route : state.route[idx].from = state.current_node
    THEN SubSeq(state.route,
                CHOOSE idx \in DOMAIN state.route :
                    /\ state.route[idx].from = state.current_node
                    /\ \A j \in 1..(idx - 1) : state.route[j].from # state.current_node,
                Len(state.route))
    ELSE state.route

\* Router._needs_reroute(vehicle_id) of a registered vehicle
NeedsReroute(r, state) ==
    \E k \in DOMAIN RemainingRoute(state) :
        LET edge == RemainingRoute(state)[k]
        IN \/ edge.id \in r.blocked_edges
           \/ Get(r.edge_loads, edge.id, 0) * 100
                 >= Max(1, edge.capacity) * r.congestion_threshold

\* Router._reroute_vehicle(vehicle_id, tick): the router after it and the new
\* route, or that plan_route raised before anything was changed
RerouteVehicle(r, vehicle_id, t) ==
    LET state == r.vehicles[vehicle_id]
        plan == PlanRoute(r, state.current_node, state.destination)
    IN IF plan.status # "ok" THEN [status |-> plan.status, router |-> r, route |-> <<>>]
       ELSE [status |-> "ok", route |-> plan.route,
             router |-> [r EXCEPT
                 !.edge_loads = ApplyRouteLoad(ApplyRouteLoad(@, state.route, -1, 1),
                                               plan.route, 1, 1),
                 !.vehicles[vehicle_id] =
                     [state EXCEPT !.route = plan.route, !.last_reroute = t]]]

\* the cooldown test passing one tick late
InCooldown_OneLong(r, state, t) == t - state.last_reroute < r.reroute_cooldown + 1
\* the cooldown test passing one tick early
InCooldown_OneShort(r, state, t) == t - state.last_reroute < r.reroute_cooldown - 1
\* the cooldown test of update_vehicle_position and block_edge
InCooldown(r, state, t) == t - state.last_reroute < r.reroute_cooldown

\* the networks of tests/test_router.py and tests/integration/test_router_loads.py
RouterNodes == {RouterNode("A", 0, 0), RouterNode("B", 1, 0), RouterNode("C", 2, 0),
                RouterNode("D", 1, 1)}
SimpleNetwork ==
    [nodes |-> RouterNodes,
     edges |-> <<Edge("A_B", "A", "B", 100, 100, 1), Edge("B_C", "B", "C", 100, 100, 1),
                 Edge("A_D", "A", "D", 150, 100, 2), Edge("D_C", "D", "C", 100, 100, 2)>>]
LoadsNetwork ==
    [nodes |-> RouterNodes,
     edges |-> <<Edge("A_B", "A", "B", 50, 100, 1), Edge("B_C", "B", "C", 50, 100, 1),
                 Edge("A_D", "A", "D", 60, 100, 2), Edge("D_C", "D", "C", 60, 100, 2)>>]
\* Router(network, congestion_threshold, reroute_cooldown, use_a_star)
NewRouter(net, congestion_threshold, reroute_cooldown, use_a_star) ==
    [network |-> net, congestion_threshold |-> congestion_threshold,
     reroute_cooldown |-> reroute_cooldown, use_a_star |-> use_a_star,
     edge_loads |-> EmptyDict, blocked_edges |-> {}, vehicles |-> EmptyDict,
     vehicle_order |-> <<>>]
\* the routers of the tests, and one that plans without the heuristic
Routers == { NewRouter(SimpleNetwork, 100, 0, TRUE), NewRouter(SimpleNetwork, 100, 3, TRUE),
             NewRouter(LoadsNetwork, 80, 0, TRUE), NewRouter(LoadsNetwork, 100, 3, FALSE) }
\* the arguments of the calls
RouterVehicleIds == {"veh_1", "veh_2"}
PlanStarts == {"A", "B", "C"}
RouterStarts == {"A", "B"}
RouterDestinations == {"C"}
CompletedEdges == {"A_B", "A_D"}
BlockedEdgeIds == {"B_C", "D_C"}
UnblockedEdgeIds == {"B_C"}
RegisterTicks == {0, 2}
UpdateTicks == {2, 3, 4}
BlockTicks == {0, 4}

NoRouterCall == [op |-> "", vehicle_id |-> "", edge_id |-> "", node |-> "",
                 destination |-> "", tick |-> 0, raised |-> "", returned |-> <<>>,
                 calls |-> 0]

RouterInit ==
    /\ router \in Routers
    /\ routerHist = NoRouterCall

\* the router of a specification that never calls it
RouterIdle ==
    /\ router = NewRouter([nodes |-> {}, edges |-> <<>>], 100, 5, TRUE)
    /\ routerHist = NoRouterCall

\* the history of a call
RouterCall(op, vehicle_id, edge_id, node, destination, t, raised, returned) ==
    [op |-> op, vehicle_id |-> vehicle_id, edge_id |-> edge_id, node |-> node,
     destination |-> destination, tick |-> t, raised |-> raised, returned |-> returned,
     calls |-> routerHist.calls + 1]

RouterRest ==
    UNCHANGED <<engineVars, lightVars, vehicleVars, fleetVars, runtimeVars>>

\* Router.plan_route(start, destination): nothing is written
Router_plan_route(start, destination) ==
    /\ routerHist.calls < MaxRouterCalls
    /\ \E plan \in {PlanRoute(router, start, destination)} :
          routerHist' = RouterCall("plan_route", "", "", start, destination, 0,
                                   IF plan.status = "ok" THEN "" ELSE plan.status,
                                   plan.route)
    /\ UNCHANGED router
    /\ RouterRest

\* Router.register_vehicle(vehicle_id, start, destination, tick)
Router_register_vehicle(vehicle_id, start, destination, t) ==
    /\ routerHist.calls < MaxRouterCalls
    /\ \E plan \in {PlanRoute(router, start, destination)} :
          IF plan.status # "ok"
          THEN /\ routerHist' = RouterCall("register_vehicle", vehicle_id, "", start, destination, t,
                                           plan.status, <<>>)
               /\ UNCHANGED router
          ELSE /\ router' = [router EXCEPT
                     !.vehicles = Put(@, vehicle_id,
                                      [current_node |-> start, destination |-> destination,
                                       route |-> plan.route, last_reroute |-> t]),
                     !.vehicle_order = IF vehicle_id \in DOMAIN router.vehicles THEN @
                                       ELSE Append(@, vehicle_id),
                     !.edge_loads = ApplyRouteLoad(@, plan.route, 1, 1)]
               /\ routerHist' = RouterCall("register_vehicle", vehicle_id, "", start, destination, t, "",
                                           plan.route)
    /\ RouterRest

\* Router.mark_edge_complete(vehicle_id, edge_id)
Router_mark_edge_complete(vehicle_id, edge_id) ==
    /\ routerHist.calls < MaxRouterCalls
    /\ router' =
          IF vehicle_id \notin DOMAIN router.vehicles THEN router
          ELSE LET state == router.vehicles[vehicle_id]
               IN IF state.route # <<>> /\ state.route[1].id = edge_id
                  THEN [router EXCEPT
                          !.edge_loads = Put(@, edge_id, Max(0, Get(@, edge_id, 0) - 1)),
                          !.vehicles[vehicle_id] =
                              [state EXCEPT !.route = Tail(state.route),
                                            !.current_node = state.route[1].to]]
                  ELSE router
    /\ routerHist' = RouterCall("mark_edge_complete", vehicle_id, edge_id, "", "", 0, "", <<>>)
    /\ RouterRest

\* Router.release_vehicle(vehicle_id)
Router_release_vehicle(vehicle_id) ==
    /\ routerHist.calls < MaxRouterCalls
    /\ router' =
          IF vehicle_id \notin DOMAIN router.vehicles THEN router
          ELSE [router EXCEPT
                  !.vehicles = [v \in DOMAIN router.vehicles \ {vehicle_id} |->
                                   router.vehicles[v]],
                  !.vehicle_order = SelectSeq(@, LAMBDA v : v # vehicle_id),
                  !.edge_loads = ApplyRouteLoad(@, router.vehicles[vehicle_id].route, -1, 1)]
    /\ routerHist' = RouterCall("release_vehicle", vehicle_id, "", "", "", 0, "", <<>>)
    /\ RouterRest

\* Router.update_vehicle_position(vehicle_id, current_node, tick)
Router_update_vehicle_position(vehicle_id, current_node, t) ==
    /\ routerHist.calls < MaxRouterCalls
    /\ IF vehicle_id \notin DOMAIN router.vehicles
       THEN /\ routerHist' = RouterCall("update_vehicle_position", vehicle_id, "",
                                        current_node, "", t, "KeyError", <<>>)
            /\ UNCHANGED router
       ELSE \E moved \in {[router EXCEPT !.vehicles[vehicle_id].current_node = current_node]} :
               IF InCooldown(moved, moved.vehicles[vehicle_id], t)
                  \/ ~NeedsReroute(moved, moved.vehicles[vehicle_id])
               THEN /\ router' = moved
                    /\ routerHist' = RouterCall("update_vehicle_position", vehicle_id, "",
                                                current_node, "", t, "",
                                                moved.vehicles[vehicle_id].route)
               ELSE \E re \in {RerouteVehicle(moved, vehicle_id, t)} :
                       /\ router' = re.router
                       /\ routerHist' = RouterCall("update_vehicle_position", vehicle_id, "",
                                                   current_node, "", t,
                                                   IF re.status = "ok" THEN "" ELSE re.status,
                                                   re.route)
    /\ RouterRest

\* the loop of block_edge over the affected vehicles, from the k-th on: the router
\* after it, and whether plan_route raised on the way
RECURSIVE BlockLoop(_, _, _, _)
BlockLoop(r, affected, t, k) ==
    IF k > Len(affected) THEN [status |-> "ok", router |-> r]
    ELSE IF InCooldown(r, r.vehicles[affected[k]], t) THEN BlockLoop(r, affected, t, k + 1)
    ELSE LET re == RerouteVehicle(r, affected[k], t)
         IN IF re.status # "ok" THEN [status |-> re.status, router |-> r]
            ELSE BlockLoop(re.router, affected, t, k + 1)

\* Router.block_edge(edge_id, tick)
Router_block_edge(edge_id, t) ==
    /\ routerHist.calls < MaxRouterCalls
    /\ \E blocked \in {[router EXCEPT !.blocked_edges = @ \cup {edge_id}]} :
       \E done \in {BlockLoop(blocked,
                       SelectSeq(blocked.vehicle_order,
                          LAMBDA v : \E k \in DOMAIN blocked.vehicles[v].route :
                                        blocked.vehicles[v].route[k].id = edge_id),
                       t, 1)} :
          /\ router' = done.router
          /\ routerHist' = RouterCall("block_edge", "", edge_id, "", "", t,
                                      IF done.status = "ok" THEN "" ELSE done.status, <<>>)
    /\ RouterRest

\* Router.unblock_edge(edge_id)
Router_unblock_edge(edge_id) ==
    /\ routerHist.calls < MaxRouterCalls
    /\ router' = [router EXCEPT !.blocked_edges = @ \ {edge_id}]
    /\ routerHist' = RouterCall("unblock_edge", "", edge_id, "", "", 0, "", <<>>)
    /\ RouterRest

NextRouter ==
    \/ \E a \in PlanStarts, b \in RouterDestinations : Router_plan_route(a, b)
    \/ \E v \in RouterVehicleIds, a \in RouterStarts, b \in RouterDestinations,
          t \in RegisterTicks : Router_register_vehicle(v, a, b, t)
    \/ \E v \in RouterVehicleIds, e \in CompletedEdges : Router_mark_edge_complete(v, e)
    \/ \E v \in RouterVehicleIds : Router_release_vehicle(v)
    \/ \E v \in RouterVehicleIds, a \in RouterStarts, t \in UpdateTicks :
          Router_update_vehicle_position(v, a, t)
    \/ \E e \in BlockedEdgeIds, t \in BlockTicks : Router_block_edge(e, t)
    \/ \E e \in UnblockedEdgeIds : Router_unblock_edge(e)

(***************************************************************************)
(* Specifications                                                          *)
(***************************************************************************)
\* the runtime of a specification without threads
RuntimeIdle == runtime = <<>>

\* each specification starts one component from its constructed states and
\* keeps the others at a fixed value they never leave
InitEngine == EngineInit /\ LightIdle /\ VehicleIdle /\ FleetIdle /\ RuntimeIdle /\ RouterIdle
InitLight == LightInit /\ EngineInit /\ VehicleIdle /\ FleetIdle /\ RuntimeIdle /\ RouterIdle
InitVehicle == VehicleInit /\ EngineInit /\ LightIdle /\ FleetIdle /\ RuntimeIdle /\ RouterIdle
InitFleet == FleetInit /\ EngineInit /\ LightIdle /\ VehicleIdle /\ RuntimeIdle /\ RouterIdle
InitSignals == SignalsInit /\ EngineInit /\ LightIdle /\ VehicleIdle /\ RuntimeIdle /\ RouterIdle
InitIndex == IndexInit /\ EngineInit /\ LightIdle /\ VehicleIdle /\ RuntimeIdle /\ RouterIdle
InitGate == GateInit /\ EngineInit /\ LightIdle /\ VehicleIdle /\ RuntimeIdle /\ RouterIdle
InitDeadEnd == DeadEndInit /\ EngineInit /\ LightIdle /\ VehicleIdle /\ RuntimeIdle /\ RouterIdle
InitAccel == AccelInit /\ EngineInit /\ LightIdle /\ FleetIdle /\ RuntimeIdle /\ RouterIdle
InitGridlock == GridlockInit /\ EngineInit /\ LightIdle /\ VehicleIdle /\ RuntimeIdle /\ RouterIdle
InitLightCycle == LightCycleInit /\ EngineInit /\ VehicleIdle /\ FleetIdle /\ RuntimeIdle /\ RouterIdle
InitRouteWalk == WalkInit /\ EngineInit /\ LightIdle /\ VehicleIdle /\ RuntimeIdle /\ RouterIdle
InitRuntime == RuntimeInit /\ EngineInit /\ LightIdle /\ VehicleIdle /\ RouterIdle
InitRing == RingInit /\ EngineInit /\ LightIdle /\ VehicleIdle /\ RuntimeIdle /\ RouterIdle
InitRouter == RouterInit /\ EngineInit /\ LightIdle /\ VehicleIdle /\ FleetIdle /\ RuntimeIdle

SpecEngine == InitEngine /\ [][NextEngine]_vars
SpecEngineFaults == InitEngine /\ [][NextEngineFaults]_vars
SpecEngineRun == InitEngine /\ [][NextEngineRun]_vars
SpecLight == InitLight /\ [][NextLight]_vars
SpecVehicle == InitVehicle /\ [][NextVehicle]_vars
SpecFleet == InitFleet /\ [][NextFleet]_vars
SpecSignals == InitSignals /\ [][NextSignals]_vars
SpecIndex == InitIndex /\ [][NextIndex]_vars
SpecGate == InitGate /\ [][NextGate]_vars
SpecDeadEnd == InitDeadEnd /\ [][NextFleet]_vars
SpecRuntime == InitRuntime /\ [][NextRuntime]_vars
SpecGridlock == InitGridlock /\ [][NextGridlock]_vars
SpecAccel == InitAccel /\ [][NextAccel]_vars
SpecRouteWalk == InitRouteWalk /\ [][NextRouteWalk]_vars
SpecRouter == InitRouter /\ [][NextRouter]_vars
\* the light is ticked again and again: the runtime loop calls the controller's
\* tick once per engine tick for as long as it runs
SpecLightCycle == InitLightCycle /\ [][NextLightCycle]_vars /\ WF_vars(NextLightCycle)
\* the loop that drives the simulation makes pass after pass for as long as the
\* program runs
SpecRing == InitRing /\ [][NextRing]_vars /\ WF_vars(NextRing)

(***************************************************************************)
(* Properties of the engine                                                *)
(***************************************************************************)
\* the registration is the only one under its name
UniqueName(i) ==
    \A j \in DOMAIN registered : j # i => registered[j].name # registered[i].name

\* number of invocations of the agent `name` made at tick t
InvokedAt(name, t) ==
    Cardinality({k \in DOMAIN invocations :
                    invocations[k].name = name /\ invocations[k].at = t})

\* index of the (only) registration of `name`
RegIndex(name) == CHOOSE i \in DOMAIN registered : registered[i].name = name

\* C2: within one tick, agents (registered once each) are invoked in the order
\* of their registration, whatever their start ticks and intervals are
C2_RegistrationOrder ==
    \A i, j \in DOMAIN invocations :
        (/\ i < j
         /\ invocations[i].at = invocations[j].at
         /\ invocations[i].name # invocations[j].name
         /\ UniqueName(RegIndex(invocations[i].name))
         /\ UniqueName(RegIndex(invocations[j].name)))
        => RegIndex(invocations[i].name) < RegIndex(invocations[j].name)

\* the ticks 0 .. tick-1 at which registration r is due: s, s+m, s+2m, ...
DueAt(r, t) ==
    /\ t >= r.start
    /\ (t - r.start) % Max(1, r.interval) = 0

C3_Cadence ==
    /\ \A k \in DOMAIN invocations :
          invocations[k].arg = invocations[k].at /\ invocations[k].at < tick
    /\ \A i \in DOMAIN registered :
          (UniqueName(i) /\ registered[i].start >= registered[i].at)
          => \A t \in 0..(tick - 1) :
                InvokedAt(registered[i].name, t) = IF DueAt(registered[i], t) THEN 1 ELSE 0

C3_TickStep ==
    tick' # tick =>
        /\ tick' = tick + 1
        /\ \A k \in DOMAIN invocations' :
              k > Len(invocations) => invocations'[k].at = tick

\* C3: an agent registered once under its name, with start tick s not before the
\* current tick and interval k, is invoked exactly once at each tick s, s+m,
\* s+2m, ... (m = max(1, k)) and at no other tick, with that tick as argument;
\* the tick counter grows by exactly 1 per advance_tick, after that tick's callbacks
C3_AgentCadence == []C3_Cadence /\ [][C3_TickStep]_vars

\* an agent of interval 2 and one of interval 0 have both run twice
C3_Witness ==
    /\ \E i \in DOMAIN registered :
          /\ UniqueName(i) /\ registered[i].interval = 2
          /\ registered[i].start >= registered[i].at
          /\ InvokedAt(registered[i].name, registered[i].start) = 1
          /\ InvokedAt(registered[i].name, registered[i].start + 2) = 1
    /\ \E i \in DOMAIN registered :
          /\ UniqueName(i) /\ registered[i].interval = 0
          /\ registered[i].start >= registered[i].at
          /\ InvokedAt(registered[i].name, registered[i].start) = 1
          /\ InvokedAt(registered[i].name, registered[i].start + 1) = 1

(***************************************************************************)
(* Properties of the vehicle                                               *)
(***************************************************************************)
\* length of the edge of index i (clamped as _current_edge clamps it)
EdgeLengthAt(v, i) == v.route[Min(i, Len(v.route) - 1) + 1].length

Crossings == {k \in DOMAIN stepHist.calls :
                 stepHist.calls[k].to_index # stepHist.calls[k].from_index}

\* C4: 0 <= position <= length of the current edge after every step, and after
\* every _advance_edge call inside a step
C4_PositionInRange ==
    /\ 0 <= veh.position
    /\ veh.position <= CurrentEdge(veh).length
    /\ \A k \in DOMAIN stepHist.calls :
          /\ 0 <= stepHist.calls[k].position
          /\ stepHist.calls[k].position <= EdgeLengthAt(veh, stepHist.calls[k].to_index)

\* a step that crossed an edge and was then refused at the next intersection
C4_Witness ==
    /\ stepHist.stepped /\ stepHist.was_blocked
    /\ Crossings # {}
    /\ veh.position > 0

\* C5: the edge index never decreases and never exceeds the route length; the
\* _advance_edge calls of a step form a chain in which each call keeps the index
\* or raises it by exactly 1 with position reset to 0, the leftover distance being
\* handed to the next call, and the gate is asked at every crossing that has a
\* successor edge
C5_OneEdgeAtATime ==
    LET calls == stepHist.calls
    IN /\ veh.current_edge_index <= Len(veh.route)
       /\ stepHist.before.current_edge_index <= veh.current_edge_index
       /\ \A k \in DOMAIN calls :
             /\ calls[k].from_index =
                   IF k = 1 THEN stepHist.before.current_edge_index
                   ELSE calls[k - 1].to_index
             /\ k > 1 => calls[k].distance_in = calls[k - 1].distance_out
             /\ calls[k].to_index \in {calls[k].from_index, calls[k].from_index + 1}
             /\ calls[k].to_index = calls[k].from_index + 1 =>
                   /\ calls[k].position = 0
                   /\ calls[k].distance_out <= calls[k].distance_in
                   /\ (stepHist.has_gate /\ calls[k].to_index < Len(veh.route))
                         => calls[k].queried
       /\ calls # <<>> => calls[Len(calls)].to_index = veh.current_edge_index
       /\ calls = <<>> => veh.current_edge_index = stepHist.before.current_edge_index

\* one step made two crossings, each through the gate
C5_Witness ==
    /\ stepHist.has_gate
    /\ Cardinality({k \in Crossings : stepHist.calls[k].queried}) >= 2

\* C6: a step in which the gate refused ends at the end of the edge of the
\* refusal, with velocity 0, the index of the refusal, the stationary counter one
\* higher than before the step; the refusal is the last _advance_edge call of the
\* step and the only one refused, and it returns no distance
C6_RefusedAtGate ==
    LET calls == stepHist.calls
    IN stepHist.was_blocked =>
          /\ calls # <<>>
          /\ calls[Len(calls)].blocked /\ calls[Len(calls)].queried
          /\ \A k \in 1..(Len(calls) - 1) : ~calls[k].blocked
          /\ calls[Len(calls)].distance_out = 0
          /\ veh.current_edge_index = calls[Len(calls)].from_index
          /\ veh.position = EdgeLengthAt(veh, calls[Len(calls)].from_index)
          /\ veh.velocity = 0
          /\ ~veh.arrived
          /\ veh.stuck_ticks = stepHist.before.stuck_ticks + 1

\* a moving vehicle short of the edge's end was refused
C6_Witness ==
    /\ stepHist.was_blocked
    /\ stepHist.before.velocity > 0
    /\ stepHist.before.position < CurrentEdge(stepHist.before).length
    /\ stepHist.before.current_edge_index = veh.current_edge_index

\* C7: after a step of a non-arrived vehicle, stuck holds exactly when the latest
\* 5 or more steps were all stationary; the counter equals the number of
\* consecutive stationary steps, and is 0 after a step that is not stationary
C7_StuckAfterFive ==
    (stepHist.stepped /\ ~veh.arrived) =>
        /\ veh.stuck <=> consec >= 5
        /\ veh.stuck_ticks = consec
        /\ (~stepHist.was_blocked /\ veh.velocity >= 1) => (consec = 0 /\ ~veh.stuck)

\* the fifth consecutive stationary step has just raised the flag
C7_Witness ==
    /\ consec = 5 /\ veh.stuck /\ ~stepHist.before.stuck /\ stepHist.was_blocked

\* C8: arrived holds exactly when the index equals the route length; the step
\* that sets it ends with a crossing out of the last edge for which the gate was
\* not asked; an arrived vehicle has velocity 0 and is not stuck, and a step of an
\* arrived vehicle changes nothing but velocity and acceleration, which become 0
C8_Arrival ==
    LET calls == stepHist.calls
        before == stepHist.before
    IN /\ veh.arrived <=> veh.current_edge_index = Len(veh.route)
       /\ veh.arrived => (veh.velocity = 0 /\ ~veh.stuck)
       /\ (veh.arrived /\ ~before.arrived) =>
             /\ calls # <<>>
             /\ calls[Len(calls)].from_index = Len(veh.route) - 1
             /\ calls[Len(calls)].to_index = Len(veh.route)
             /\ ~calls[Len(calls)].queried
       /\ (stepHist.stepped /\ before.arrived) =>
             /\ veh.arrived
             /\ calls = <<>>
             /\ veh.velocity = 0 /\ veh.acceleration = 0
             /\ veh.position = before.position
             /\ veh.current_edge_index = before.current_edge_index
             /\ veh.stuck_ticks = before.stuck_ticks
             /\ veh.stuck = before.stuck

\* an arrived vehicle was stepped again
C8_Witness ==
    /\ stepHist.stepped /\ stepHist.before.arrived /\ veh.arrived
    /\ Len(veh.route) > 1

(***************************************************************************)
(* Properties of the fleet                                                 *)
(***************************************************************************)
\* the four conditions of the gate, as they stood when the gate was asked
AllFourHold(q) ==
    /\ q.occupancy < q.capacity
    /\ ~q.blocked
    /\ ~q.closed
    /\ q.signals_present => q.permitted

\* C1: in a tick, a vehicle asking to leave its edge crosses into the next edge of
\* its route if and only if, when it is stepped, the occupancy of the next edge
\* (as updated so far in the tick) is below its capacity, the next edge is neither
\* blocked nor closed, and the signal controller, if present, permits the movement
C1_GateIffAllFour ==
    \A k \in DOMAIN fleetHist.log : fleetHist.log[k].crossed <=> AllFourHold(fleetHist.log[k])

\* a tick in which one vehicle was let through and another was refused for
\* capacity alone
C1_Witness ==
    /\ \E k \in DOMAIN fleetHist.log : fleetHist.log[k].crossed
    /\ \E k \in DOMAIN fleetHist.log :
          LET q == fleetHist.log[k]
          IN ~q.crossed /\ q.occupancy >= q.capacity /\ ~q.blocked /\ ~q.closed
             /\ q.signals_present /\ q.permitted

(***************************************************************************)
(* Properties of the traffic light                                         *)
(***************************************************************************)
OtherPhase(p) == IF p = "NS" THEN "EW" ELSE "NS"

\* C9: the phase is NS or EW; a tick changes the phase only if elapsed + dt has
\* reached the duration of the phase that was current, then to the other phase
\* and with elapsed exactly 0; a tick that keeps the phase has added dt to
\* elapsed (no second switch hides in it)
C9_PhaseDiscipline ==
    /\ light.phase \in Phases
    /\ lightHist.dt >= 0 =>
          LET before == lightHist.before
              reached == before.elapsed + lightHist.dt >= durations[before.phase]
          IN /\ light.phase # before.phase =>
                   (reached /\ light.phase = OtherPhase(before.phase) /\ light.elapsed = 0)
             /\ light.phase = before.phase =>
                   light.elapsed = before.elapsed + lightHist.dt

\* a switch at which elapsed + dt lay beyond the duration
C9_Witness ==
    /\ lightHist.dt >= 0
    /\ light.phase # lightHist.before.phase
    /\ lightHist.before.elapsed + lightHist.dt > durations[lightHist.before.phase]
    /\ light.elapsed = 0

\* C10, as stated: for every duration value of the current phase, a tick after
\* which elapsed has reached it switches the phase and resets elapsed
C10_SwitchWhenReached ==
    lightHist.dt >= 0 =>
        LET before == lightHist.before
        IN before.elapsed + lightHist.dt >= durations[before.phase]
           => (light.phase = OtherPhase(before.phase) /\ light.elapsed = 0)

\* C10, amended: for a positive duration of the current phase, a tick after which
\* elapsed has reached it switches the phase and resets elapsed; with a duration
\* <= 0 the tick keeps the phase and only adds dt to elapsed
C10_SwitchWhenReachedPositive ==
    lightHist.dt >= 0 =>
        LET before == lightHist.before
            duration == durations[before.phase]
        IN /\ (duration > 0 /\ before.elapsed + lightHist.dt >= duration)
                 => (light.phase = OtherPhase(before.phase) /\ light.elapsed = 0)
           /\ duration <= 0 =>
                 (light.phase = before.phase
                  /\ light.elapsed = before.elapsed + lightHist.dt)

\* a switch made at the tick where elapsed equals the duration exactly
C10_Witness ==
    /\ lightHist.dt > 0
    /\ lightHist.before.elapsed + lightHist.dt = durations[lightHist.before.phase]
    /\ light.phase = OtherPhase(lightHist.before.phase)
    /\ light.elapsed = 0

(***************************************************************************)
(* Properties of the signal controller                                     *)
(***************************************************************************)
\* the row and the column a node of the network is known by (None when the
\* node is unknown or carries neither)
RowOf(node_id) ==
    LET n == NodeLookup(network, node_id) IN Get(n, "row", Get(n, "y", None))
ColOf(node_id) ==
    LET n == NodeLookup(network, node_id) IN Get(n, "col", Get(n, "x", None))

\* the orientation of a movement as the claim words it
MovementOrientation(from_id, to_id) ==
    IF RowOf(from_id) # None /\ RowOf(to_id) # None /\ RowOf(from_id) # RowOf(to_id)
    THEN "NS"
    ELSE IF ColOf(from_id) # None /\ ColOf(to_id) # None /\ ColOf(from_id) # ColOf(to_id)
    THEN "EW"
    ELSE "NS"

C11_Answer ==
    fleetHist.asked =>
        LET cur == fleetHist.current_edge
            dest == cur.to
        IN /\ fleetHist.answer =
                  (\/ dest \notin DOMAIN signals.lights
                   \/ signals.lights[dest].phase = MovementOrientation(cur.from, dest))
           /\ \A other \in SignalEdges :
                  SignalsCanEnter(network, signals, cur, other) = fleetHist.answer

\* C11: can_enter answers true exactly when the destination node of
\* current_edge has no light or that light's phase equals the orientation of
\* the movement (NS when the rows differ, else EW when the columns differ,
\* else NS); the answer is the same for every next_edge, and the call leaves
\* the lights and the network as they were.
C11_CanEnter == []C11_Answer /\ [][signals' = signals /\ network' = network]_vars

\* a light at the destination refuses a movement whose rows and columns both
\* differ: the movement counts as NS and the light shows EW
C11_Witness ==
    /\ fleetHist.asked
    /\ ~fleetHist.answer
    /\ fleetHist.current_edge.to \in DOMAIN signals.lights
    /\ RowOf(fleetHist.current_edge.from) # None
    /\ RowOf(fleetHist.current_edge.from) # RowOf(fleetHist.current_edge.to)
    /\ ColOf(fleetHist.current_edge.from) # ColOf(fleetHist.current_edge.to)
    /\ RowOf(fleetHist.current_edge.to) # None

(***************************************************************************)
(* Properties of the fleet tick                                            *)
(***************************************************************************)
\* the last call of tick ran to its end
TickCompleted == fleetHist.ticked /\ ~fleetHist.raised

\* the cadence and cap condition of the claim, on the values the tick started with
CadenceSlot == fleetHist.counter_before % spawner.spawn_interval = 0
BelowCap == fleetHist.size_before < spawner.max_vehicles

\* C13: a completed tick adds exactly one vehicle when the spawner's counter is
\* a multiple of spawn_interval and the fleet is below max_vehicles, and none
\* otherwise; the fleet never holds more than max_vehicles vehicles, neither
\* after the spawn nor after the tick.
C13_SpawnCadence ==
    /\ Len(vehicles) <= spawner.max_vehicles
    /\ TickCompleted =>
          /\ Len(fleetHist.entered) =
                fleetHist.size_before + (IF CadenceSlot /\ BelowCap THEN 1 ELSE 0)
          /\ Len(fleetHist.entered) <= spawner.max_vehicles
          /\ spawner.tick_counter = fleetHist.counter_before + 1

\* a tick outside the cadence that starts with an empty fleet (max_vehicles = 1,
\* after a vehicle has come and gone): nothing is spawned although there is room
C13_Witness ==
    /\ TickCompleted
    /\ ~CadenceSlot
    /\ BelowCap
    /\ fleetHist.counter_before > spawner.spawn_interval
    /\ spawner.max_vehicles = 1
    /\ Len(fleetHist.entered) = 0

\* the vehicles of a fleet that are not arrived, in fleet order
NotArrived(vs) == SelectSeq(vs, LAMBDA v : ~v.arrived)

\* C14: after every completed tick the fleet holds no arrived vehicle, and it
\* holds every vehicle that the sweep of that tick left not arrived: the
\* removal at the end of the tick takes the arrived ones and only those.
C14_ArrivedRemoved ==
    /\ \A i \in DOMAIN vehicles : ~vehicles[i].arrived
    /\ TickCompleted =>
          /\ vehicles = NotArrived(fleetHist.swept)
          /\ \A i \in DOMAIN fleetHist.swept :
                ~fleetHist.swept[i].arrived =>
                    \E j \in DOMAIN vehicles : vehicles[j] = fleetHist.swept[i]

\* a tick in which one vehicle arrived and was removed while another stayed
C14_Witness ==
    /\ TickCompleted
    /\ \E i \in DOMAIN fleetHist.swept :
          fleetHist.swept[i].arrived /\ ~fleetHist.entered[i].arrived
    /\ Len(vehicles) = 1
    /\ Len(fleetHist.swept) = 2

\* the vehicle of fleet index i was stepped without a leader in the last tick
SteppedWithoutLeader(i) ==
    \E k \in DOMAIN fleetHist.steps :
        fleetHist.steps[k].index = i /\ fleetHist.steps[k].leader_index = 0

\* the gate queries of the last tick made by the vehicle of fleet index i for
\* leaving the edge it started the tick on
QueriesAtOwnEdge(i) ==
    {k \in DOMAIN fleetHist.log :
        /\ fleetHist.log[k].vehicle_id = fleetHist.entered[i].vehicle_id
        /\ fleetHist.log[k].current_edge = CurrentEdgeId(fleetHist.entered[i])}

\* the vehicle stands at the end of an edge that is not the last of its route
WaitingAtEnd(v) ==
    /\ ~v.arrived
    /\ v.current_edge_index + 1 < Len(v.route)
    /\ v.position = CurrentEdge(v).length
    /\ v.velocity = 0

StepsOfEdge(edge_id) == SelectSeq(fleetHist.steps, LAMBDA c : c.edge_id = edge_id)

\* the queues of the last tick, built from the fleet as it was after the spawn
QueuesOfTick == SpatialIndexBuild(fleetHist.entered).ordering

\* C16: in a tick the vehicles of each edge's queue are stepped in queue order,
\* from the one nearest the exit on, every vehicle exactly once; the first of a
\* queue is stepped without leader, and every other one with the vehicle
\* stepped just before it in that queue as leader, in the state that vehicle's
\* own step of this tick left it in (without leader if that vehicle has just
\* arrived).
C16_LeaderFirst ==
    TickCompleted =>
        /\ Len(fleetHist.steps) = Len(NotArrived(fleetHist.entered))
        /\ \A e \in DOMAIN QueuesOfTick :
              LET queue == QueuesOfTick[e].queue
                  calls == StepsOfEdge(QueuesOfTick[e].edge_id)
              IN /\ Len(calls) = Len(queue)
                 /\ \A j \in DOMAIN queue :
                       /\ calls[j].index = queue[j]
                       /\ j > 1 => fleetHist.entered[queue[j - 1]].position
                                      >= fleetHist.entered[queue[j]].position
                       /\ calls[j].leader =
                             IF j = 1 \/ fleetHist.swept[queue[j - 1]].arrived
                             THEN NoLeader
                             ELSE LeaderOf(fleetHist.swept[queue[j - 1]])

\* a follower was stepped with a leader that had already moved in this tick
C16_Witness ==
    /\ TickCompleted
    /\ \E k \in DOMAIN fleetHist.steps :
          LET c == fleetHist.steps[k]
          IN /\ c.leader_index # 0
             /\ c.leader = LeaderOf(fleetHist.swept[c.leader_index])
             /\ c.leader # LeaderOf(fleetHist.entered[c.leader_index])
             /\ c.leader.edge_id = c.edge_id

(***************************************************************************)
(* Properties of the spatial index                                         *)
(***************************************************************************)
\* the places (queue number, place in the queue) where fleet index i stands
PlacesOf(i) ==
    {<<e, j>> \in (DOMAIN fleetHist.ordering) \X (1..Len(vehicles)) :
        j \in DOMAIN fleetHist.ordering[e].queue /\ fleetHist.ordering[e].queue[j] = i}

\* C17: build gives one queue per edge that carries a vehicle; a queue holds
\* exactly the vehicles of the fleet that are on that edge and not arrived,
\* each once, by non-increasing position (across buckets too); the occupancy
\* of an edge is the length of its queue; an arrived vehicle is in no queue
\* and in no count.
C17_QueuesAndCounts ==
    fleetHist.built =>
        /\ \A i \in DOMAIN vehicles :
              IF vehicles[i].arrived THEN PlacesOf(i) = {}
              ELSE /\ Cardinality(PlacesOf(i)) = 1
                   /\ \A pl \in PlacesOf(i) :
                         fleetHist.ordering[pl[1]].edge_id = CurrentEdgeId(vehicles[i])
        /\ \A e, f \in DOMAIN fleetHist.ordering :
              fleetHist.ordering[e].edge_id = fleetHist.ordering[f].edge_id => e = f
        /\ \A e \in DOMAIN fleetHist.ordering :
              LET queue == fleetHist.ordering[e].queue
              IN /\ queue # <<>>
                 /\ \A j \in DOMAIN queue : queue[j] \in DOMAIN vehicles
                 /\ \A j, k \in DOMAIN queue :
                       j < k => vehicles[queue[j]].position >= vehicles[queue[k]].position
                 /\ fleetHist.ordering[e].edge_id \in DOMAIN fleetHist.occupancy
                 /\ fleetHist.occupancy[fleetHist.ordering[e].edge_id] = Len(queue)
        /\ DOMAIN fleetHist.occupancy =
              {fleetHist.ordering[e].edge_id : e \in DOMAIN fleetHist.ordering}

\* a queue of two that reverses the fleet's order and puts the vehicle just
\* past a bucket boundary (20.0 m) before the one just short of it (19.9 m),
\* in a fleet that also holds an arrived vehicle
C17_Witness ==
    /\ fleetHist.built
    /\ \E i \in DOMAIN vehicles : vehicles[i].arrived
    /\ \E e \in DOMAIN fleetHist.ordering :
          LET queue == fleetHist.ordering[e].queue
          IN /\ Len(queue) = 2
             /\ queue[1] > queue[2]
             /\ vehicles[queue[1]].position = 200
             /\ vehicles[queue[2]].position = 199

(***************************************************************************)
(* Properties of the entry gate                                            *)
(***************************************************************************)
\* C15: when the next edge has no capacity attribute the gate query completes
\* without raising, and capacity never refuses: the answer is true exactly
\* when the edge is neither blocked nor closed and the signal controller, if
\* present, permits, whatever the occupancy is.
C15_MissingCapacityUnbounded ==
    (fleetHist.asked /\ "capacity" \notin DOMAIN fleetHist.next_edge) =>
        /\ ~fleetHist.outcome.raised
        /\ fleetHist.outcome.value =
              (/\ fleetHist.next_edge.id \notin fleetHist.blocked_edges
               /\ fleetHist.next_edge.id \notin fleetHist.closed
               /\ signals.present =>
                     SignalsCanEnter(network, signals, fleetHist.current_edge,
                                     fleetHist.next_edge))

(***************************************************************************)
(* Properties of the spawn on networks with dead ends                      *)
(***************************************************************************)
\* the route ends at the destination, or is the single edge drawn when the
\* walk started at the destination
RouteArrivesAt(route, destination) ==
    /\ route # <<>>
    /\ \A k \in DOMAIN route : route[k] \in network.edges
    /\ \A k \in 1..(Len(route) - 1) : route[k].to = route[k + 1].from
    /\ \/ Coords(network, route[Len(route)].to) = Coords(network, destination)
       \/ Len(route) = 1

\* C20: a spawn attempted on a network without edges always fails; a tick is
\* completed after a due spawn only with a vehicle whose route does not stop
\* at a dead end short of the destination; when route construction fails the
\* error leaves tick at once: the fleet is as it was, nothing is spawned in
\* its place and the spawner's counter has not moved.
C20_SpawnFailure ==
    /\ (fleetHist.ticked /\ fleetHist.due /\ network.edges = {}) => fleetHist.raised
    /\ (TickCompleted /\ fleetHist.due) =>
          /\ Len(fleetHist.entered) = fleetHist.size_before + 1
          /\ \E d \in spawner.destinations :
                RouteArrivesAt(fleetHist.entered[Len(fleetHist.entered)].route, d)
    /\ (fleetHist.ticked /\ fleetHist.raised) =>
          /\ fleetHist.due
          /\ vehicles = fleetHist.entered
          /\ Len(vehicles) = fleetHist.size_before
          /\ spawner.tick_counter = fleetHist.counter_before
    /\ \A i \in DOMAIN vehicles :
          \E d \in spawner.destinations : RouteArrivesAt(vehicles[i].route, d)

\* the walk ran into the dead end while a vehicle spawned earlier was on its
\* way: the tick raised and the fleet is still that one vehicle
C20_Witness ==
    /\ fleetHist.ticked
    /\ fleetHist.raised
    /\ network.edges # {}
    /\ Len(vehicles) = 1
    /\ fleetHist.counter_before > 0


(***************************************************************************)
(* Properties of the engine when a callback raises                         *)
(***************************************************************************)
\* the invocations made by the advance_tick that was left by the exception
InvokedByRaisingCall ==
    SubSeq(invocations, lastAdvance.before + 1, Len(invocations))

\* the names registered for the current tick since the exception
RegisteredSinceRaise ==
    {registered[i].name : i \in {j \in DOMAIN registered :
        j > lastAdvance.registered /\ registered[j].start = tick}}

C19_LeftByException ==
    lastAdvance.raised =>
        /\ tick = lastAdvance.at
        /\ Len(InvokedByRaisingCall) = lastAdvance.upto
        /\ \A j \in 1..lastAdvance.upto :
              /\ InvokedByRaisingCall[j].name = lastAdvance.due[j]
              /\ InvokedByRaisingCall[j].at = tick
        /\ tick \in DOMAIN schedule =>
              \A j \in DOMAIN schedule[tick] : schedule[tick][j] \in RegisteredSinceRaise

C19_NothingRetried ==
    lastAdvance.raised =>
        \A k \in DOMAIN invocations' :
            k > Len(invocations) => invocations'[k].name \in RegisteredSinceRaise

\* C19: when the callback of a due agent raises, advance_tick is left with the
\* tick counter not incremented, the agents due before it invoked in order, the
\* agents due after it not invoked, and no later call invokes the raising agent
\* or the skipped ones again for that tick
C19_CallbackRaises == []C19_LeftByException /\ [][C19_NothingRetried]_vars

\* two different agents were due at a tick after the first, the callback of the
\* first has raised and the second has not been called
C19_Witness ==
    /\ lastAdvance.raised
    /\ lastAdvance.at > 0
    /\ Len(lastAdvance.due) = 2
    /\ lastAdvance.upto = 1
    /\ lastAdvance.due[1] # lastAdvance.due[2]


(***************************************************************************)
(* Properties of the runtime                                               *)
(***************************************************************************)
\* C18: every read and write of simulation state by the tick thread and by the
\* callers of the runtime (the value toggle_edge_closure returns included) is
\* made by a thread that holds the lock, and never while a tick is in progress
\* in another thread
C18_AllAccessUnderLock ==
    /\ runtime.access.held
    /\ \lnot runtime.access.ticking

\* a snapshot never shows the middle of a tick: the spawner has counted exactly
\* the ticks the engine has, and the metrics are those of the latest tick
SnapshotsWhole ==
    \A t \in Callers :
        runtime.returned[t].op = "snapshot" =>
            /\ runtime.returned[t].tick_counter = runtime.returned[t].tick
            /\ runtime.returned[t].metrics_tick = runtime.returned[t].tick

\* the value a toggle returned differs from what its own toggle made of the edge
ToggleReturnedStale ==
    \E t \in Callers :
        /\ runtime.returned[t].op = "toggle_edge_closure"
        /\ runtime.returned[t].closed # runtime.toggled_to[t]


(***************************************************************************)
(* Properties of route construction                                        *)
(***************************************************************************)
\* each edge of the route ends where the following one starts
Contiguous(route) ==
    \A k \in 1..(Len(route) - 1) : route[k].to = route[k + 1].from

\* C21: the route of every spawned vehicle is a non-empty contiguous chain of
\* edges of the network whose last edge ends at the vehicle's destination
C21_RouteReachesDestination ==
    fleetHist.spawn.happened =>
        LET route == fleetHist.spawn.route
        IN /\ route # <<>>
           /\ \A k \in DOMAIN route : route[k] \in network.edges
           /\ Contiguous(route)
           /\ route[Len(route)].to = fleetHist.spawn.destination


(***************************************************************************)
(* Properties of the spawn                                                 *)
(***************************************************************************)
\* C22: driven by the engine, the ids of all vehicles ever spawned are pairwise
\* distinct, and no spawn replaces a vehicle that is in the fleet
C22_UniqueIds ==
    /\ \A i, j \in DOMAIN fleetHist.ids : i # j => fleetHist.ids[i] # fleetHist.ids[j]
    /\ ~fleetHist.spawn.replaced

\* two vehicles were spawned into fleets of the same size, the second one by the
\* latest tick while a vehicle was in the fleet
C22_Witness ==
    /\ fleetHist.spawn.happened
    /\ fleetHist.size_before > 0
    /\ \E i \in DOMAIN fleetHist.ids :
          /\ i < Len(fleetHist.ids)
          /\ fleetHist.ids[i][2] = fleetHist.spawn.vehicle_id[2]


(***************************************************************************)
(* Properties of run                                                       *)
(***************************************************************************)
\* the invocations made by the latest call of run
InvokedByRun == SubSeq(invocations, lastAdvance.run.before + 1, Len(invocations))

\* C23: run(max_ticks) started at tick t <= max_ticks makes exactly
\* max_ticks - t calls of advance_tick and returns at tick max_ticks, having
\* invoked agents only for the ticks t .. max_ticks - 1; started at
\* t >= max_ticks it invokes nobody and leaves the tick as it is
C23_RunToLimit ==
    lastAdvance.run.called =>
        LET r == lastAdvance.run
        IN /\ r.from <= r.limit =>
                /\ r.calls = r.limit - r.from
                /\ tick = r.limit
                /\ \A k \in DOMAIN InvokedByRun :
                      InvokedByRun[k].at \in r.from..(r.limit - 1)
           /\ r.from >= r.limit =>
                /\ r.calls = 0
                /\ tick = r.from
                /\ InvokedByRun = <<>>

\* a run from a tick after the first over at least two ticks has invoked agents
\* at two of its ticks and has left an agent scheduled for the limit uninvoked
C23_Witness ==
    /\ lastAdvance.run.called
    /\ lastAdvance.run.from > 0
    /\ lastAdvance.run.limit >= lastAdvance.run.from + 2
    /\ \E i, j \in DOMAIN InvokedByRun : InvokedByRun[i].at # InvokedByRun[j].at
    /\ tick \in DOMAIN schedule
    /\ Len(invocations) = lastAdvance.run.before + Len(InvokedByRun)

\* a run called at or after its limit
C23_NothingToDo ==
    /\ lastAdvance.run.called
    /\ lastAdvance.run.from > lastAdvance.run.limit
    /\ tick \in DOMAIN schedule


(***************************************************************************)
(* Properties of the acceleration                                          *)
(***************************************************************************)
\* the vehicle reacts to the leader: there is one and it is on the vehicle's edge
Follows == stepHist.leader.present /\ stepHist.leader.edge_id = veh.route[1].id

\* the closed form, in tenths, with the two ratios in hundredths: the desired
\* speed, the gap with its floor of 0.1, the desired gap s*, and
\* a_max * (1 - (v / desired)^4 - (s* / gap)^2)
FormulaDesired == Max((veh.route[1].speed_limit * veh.patience) \div 10, 0)
FormulaGap ==
    Max(stepHist.leader.position - veh.position - stepHist.leader.length, 1)
FormulaSStar ==
    MinimumSpacing
    + Max(0, (veh.velocity * DesiredTimeHeadway) \div 10
             + (veh.velocity * (veh.velocity - stepHist.leader.velocity) * 100)
               \div TwoSqrtAB100)
Squared(x) == (x * x) \div 100
FormulaValue ==
    (AccelerationMax
     * (100 - Squared(Squared((veh.velocity * 100) \div FormulaDesired))
            - (IF Follows THEN Squared((FormulaSStar * 100) \div FormulaGap) ELSE 0)))
    \div 100

\* C24: compute_acceleration returns the closed form; the interaction term is 0
\* without a leader and for a leader on another edge; at v = 10, speed limit 20,
\* patience 1 and no leader the value is 0.9375 (0.9 at the resolution of a
\* tenth); with a desired speed of 0 or less it is the comfortable deceleration
C24_ClosedForm ==
    stepHist.computed =>
        /\ FormulaDesired <= 0 => stepHist.result = -DecelerationComfortable
        /\ FormulaDesired > 0 => stepHist.result = FormulaValue
        /\ (FormulaDesired > 0 /\ ~Follows) =>
                stepHist.result = ComputeAcceleration(veh, NoLeader)
        /\ (/\ veh.velocity = 100 /\ veh.route[1].speed_limit = 200
            /\ veh.patience = 10 /\ ~Follows) => stepHist.result = 9375 \div 1000

\* the acceleration behind a leader on the vehicle's own edge that overlaps the
\* vehicle (the gap is at its floor), with a positive desired speed
C24_Witness ==
    /\ stepHist.computed
    /\ Follows
    /\ FormulaDesired > 0
    /\ stepHist.leader.position - veh.position - stepHist.leader.length < 1
    /\ stepHist.result < -DecelerationComfortable

\* the acceleration with a leader on another edge
C24_OtherEdge ==
    /\ stepHist.computed
    /\ stepHist.leader.present /\ ~Follows
    /\ FormulaDesired > 0
    /\ stepHist.result > 0


(***************************************************************************)
(* Properties of the blocked edges                                         *)
(***************************************************************************)
\* the edges that hold a non-arrived stuck vehicle of the fleet vs less than its
\* own length from the exit
ObstructedExits(vs) ==
    {CurrentEdgeId(vs[i]) : i \in
        {j \in DOMAIN vs : /\ ~vs[j].arrived
                           /\ vs[j].stuck
                           /\ CurrentEdge(vs[j]).length - vs[j].position < vs[j].length}}

\* C25: the blocked set at the start of the sweep is exactly the set of edges
\* holding a non-arrived stuck vehicle less than its length from the exit, as
\* the fleet is then, whatever the blocked set of the tick before was
C25_BlockedAtStart ==
    TickCompleted => fleetHist.blocked_start = ObstructedExits(fleetHist.entered)

\* the sweep starts with one edge blocked by a stuck vehicle at its exit while
\* another stuck vehicle stands further back on an edge that is not blocked,
\* although the tick before ended with that edge blocked
C25_Witness ==
    /\ TickCompleted
    /\ fleetHist.blocked_start # {}
    /\ \E i \in DOMAIN fleetHist.entered :
          /\ fleetHist.entered[i].stuck
          /\ CurrentEdgeId(fleetHist.entered[i]) \notin fleetHist.blocked_start
          /\ CurrentEdgeId(fleetHist.entered[i]) \in fleetHist.blocked_prev


\* C26: an edge joins the blocked set during the sweep only through a vehicle
\* on it whose stuck flag was false before its step of this tick and true after
C26_AddedOnlyWhenNewlyStuck ==
    TickCompleted =>
        \A e \in fleetHist.blocked_end \ fleetHist.blocked_start :
            \E i \in DOMAIN fleetHist.entered :
                /\ ~fleetHist.entered[i].stuck
                /\ fleetHist.swept[i].stuck
                /\ CurrentEdgeId(fleetHist.swept[i]) = e

\* a vehicle was refused an edge that is open and below capacity and was not
\* blocked when the sweep started, on which no vehicle became stuck in this tick
C26_RefusedByOldStuck ==
    /\ TickCompleted
    /\ \E k \in DOMAIN fleetHist.log :
          /\ fleetHist.log[k].blocked
          /\ ~fleetHist.log[k].crossed
          /\ ~fleetHist.log[k].closed
          /\ fleetHist.log[k].occupancy < fleetHist.log[k].capacity
          /\ fleetHist.log[k].next_edge \notin fleetHist.blocked_start
          /\ \A i \in DOMAIN fleetHist.entered :
                CurrentEdgeId(fleetHist.swept[i]) = fleetHist.log[k].next_edge
                    => fleetHist.entered[i].stuck


(***************************************************************************)
(* Properties of the sweep                                                 *)
(***************************************************************************)
\* how often Vehicle.step was called in the last tick on the i-th vehicle
TimesStepped(i) == Cardinality({k \in DOMAIN fleetHist.steps : fleetHist.steps[k].index = i})

\* C27: in one tick every vehicle that is not arrived when the index is built,
\* the one spawned in this tick included, is stepped exactly once, and no other
\* vehicle is stepped
C27_SteppedExactlyOnce ==
    TickCompleted =>
        /\ \A i \in DOMAIN fleetHist.entered :
              TimesStepped(i) = IF fleetHist.entered[i].arrived THEN 0 ELSE 1
        /\ \A k \in DOMAIN fleetHist.steps : fleetHist.steps[k].index \in DOMAIN fleetHist.entered

\* a vehicle spawned in this tick was stepped, and a vehicle crossed into an
\* edge whose queue was processed after its own step
C27_Witness ==
    /\ TickCompleted
    /\ fleetHist.spawn.happened
    /\ TimesStepped(Len(fleetHist.entered)) = 1
    /\ \E k, later \in DOMAIN fleetHist.steps :
          /\ k < later
          /\ ~fleetHist.swept[fleetHist.steps[k].index].arrived
          /\ fleetHist.steps[k].edge_id # CurrentEdgeId(fleetHist.swept[fleetHist.steps[k].index])
          /\ fleetHist.steps[later].edge_id = CurrentEdgeId(fleetHist.swept[fleetHist.steps[k].index])

\* C28: after a tick the queue-length snapshot equals the occupancy the index
\* build of that tick produced, before any vehicle was stepped
C28_SnapshotIsBuiltOccupancy ==
    TickCompleted => last_queue_lengths = fleetHist.occupancy_built

\* after a tick in which a vehicle arrived the snapshot counts one vehicle less
\* on its edge than the index build did
C28_SnapshotAfterSweep ==
    /\ TickCompleted
    /\ \E i \in DOMAIN fleetHist.swept :
          /\ fleetHist.swept[i].arrived
          /\ Get(last_queue_lengths, CurrentEdgeId(fleetHist.entered[i]), 0)
               < Get(fleetHist.occupancy_built, CurrentEdgeId(fleetHist.entered[i]), 0)


(***************************************************************************)
(* Properties of a light that keeps being ticked                           *)
(***************************************************************************)
\* the light of the example after its ticks, one by one
ExampleDurations == [NS |-> 10, EW |-> 20]
ExampleStart == [phase |-> "NS", elapsed |-> 0]
ExampleAfter1 == LightTick(ExampleStart, ExampleDurations, 5)
ExampleAfter2 == LightTick(ExampleAfter1, ExampleDurations, 6)
ExampleAfter3 == LightTick(ExampleAfter2, ExampleDurations, 10)
ExampleAfter4 == LightTick(ExampleAfter3, ExampleDurations, 11)

\* a tick switches the phase, once, exactly when the dt's added up since the
\* phase was entered reach the duration of the phase with this tick
SwitchesWhenReached ==
    lightHist' # lightHist =>
        LET reached == lightHist.since + lightHist'.dt >= durations[light.phase]
        IN light'.phase = IF reached THEN OtherPhase(light.phase) ELSE light.phase

\* C29: with positive durations and positive dt the light stays in a phase until
\* the tick at which the time accumulated since the phase was entered reaches its
\* duration and switches once at that tick, and each phase comes back infinitely
\* often; with NS 1.0 and EW 2.0, started in NS and ticked 0.5, 0.6, 1.0, 1.1,
\* the phases are NS, EW, EW, NS
C29_AlternatesForever ==
    /\ [][SwitchesWhenReached]_vars
    /\ []<>(light.phase = "NS")
    /\ []<>(light.phase = "EW")
    /\ [](<<ExampleAfter1.phase, ExampleAfter2.phase, ExampleAfter3.phase, ExampleAfter4.phase>>
            = <<"NS", "EW", "EW", "NS">>)

\* the light of the example after its fourth tick: back in NS, the tick of 1.1
\* having taken the time in EW from 1.0 beyond 2.0
C29_Witness ==
    /\ durations = ExampleDurations
    /\ light = ExampleAfter4
    /\ lightHist.dt = 11
    /\ lightHist.before = ExampleAfter3
    /\ lightHist.before.phase = "EW"
    /\ lightHist.before.elapsed = 10


(***************************************************************************)
(* Properties of a route construction that does not end                    *)
(***************************************************************************)
Walking == fleetHist.pc = "walking"

\* the nodes from which every edge the walk to `destination` may draw leads to
\* such a node again, none of them at the destination or without an edge to draw
Trap(net, destination) ==
    UNION {T \in SUBSET {n.id : n \in net.nodes} :
              \A n \in T : /\ Coords(net, n) # Coords(net, destination)
                           /\ StepOptions(net, n, destination) # {}
                           /\ \A e \in StepOptions(net, n, destination) : e.to \in T}
Trapped == Walking /\ fleetHist.current \in Trap(network, fleetHist.destination)

\* the walk leaves its loop only at the destination or where no edge leaves the
\* node, whatever it has visited and however many edges it has taken
LeavesOnlyAtEnd ==
    (Walking /\ fleetHist'.pc = "idle") =>
        \/ /\ fleetHist'.outcome = "returned"
           /\ Coords(network, fleetHist.current) = Coords(network, fleetHist.destination)
        \/ /\ fleetHist'.outcome = "raised"
           /\ \A e \in network.edges : e.from # fleetHist.current

\* C30: the walk has no bound and does not track the nodes it visited: it stops
\* only at the destination or at a node without outbound edges, and once it is
\* among nodes whose drawn edges lead back among them it stays in its loop for
\* ever, always able to make another pass, while the tick of the spawner and the
\* tick of the engine that called it stay as they were when the walk began
C30_WalkNeverEnds ==
    /\ [][LeavesOnlyAtEnd]_vars
    /\ [](Trapped => [](/\ Trapped
                        /\ ENABLED build_route_iterate
                        /\ ~ENABLED build_route_return
                        /\ spawner.tick_counter = fleetHist.counter_at_entry
                        /\ tick = fleetHist.tick_at_entry))

\* a walk in progress that has come back to a node it had visited and has taken
\* more edges than the network has nodes
C30_Witness ==
    /\ Trapped
    /\ fleetHist.revisited
    /\ fleetHist.taken > Cardinality(network.nodes)
    /\ fleetHist.taken > MaxRouteLen

\* a walk ended by the ValueError of a node without outbound edges
C30_WalkRaised == fleetHist.pc = "idle" /\ fleetHist.outcome = "raised"

\* no walk that returns has taken more edges than the model keeps of its route
C30_ReturnsWithWholeRoute ==
    (Walking /\ Coords(network, fleetHist.current) = Coords(network, fleetHist.destination))
        => fleetHist.taken <= MaxRouteLen


(***************************************************************************)
(* Properties of the queue of an edge                                      *)
(***************************************************************************)
\* the i-th vehicle is on the edge it was on when the sweep began
StillOnItsEdge(i) ==
    /\ ~fleetHist.swept[i].arrived
    /\ CurrentEdgeId(fleetHist.swept[i]) = CurrentEdgeId(fleetHist.entered[i])

\* C31: of two vehicles on one edge before the tick, the one behind is not ahead
\* after the tick, and has not left the edge while the one ahead is still on it
C31_NoOvertaking ==
    TickCompleted =>
        \A a, b \in DOMAIN fleetHist.entered :
            (/\ ~fleetHist.entered[a].arrived /\ ~fleetHist.entered[b].arrived
             /\ CurrentEdgeId(fleetHist.entered[a]) = CurrentEdgeId(fleetHist.entered[b])
             /\ fleetHist.entered[a].position > fleetHist.entered[b].position
             /\ StillOnItsEdge(a))
            => /\ StillOnItsEdge(b)
               /\ fleetHist.swept[b].position <= fleetHist.swept[a].position


(***************************************************************************)
(* Properties of the velocity after a step                                 *)
(***************************************************************************)
\* C34: after a step a vehicle that has not arrived has a velocity between 0
\* and the desired speed of the edge it is then on
C34_VelocityWithinDesired ==
    (stepHist.stepped /\ ~veh.arrived) =>
        (0 <= veh.velocity /\ veh.velocity <= DesiredSpeed(veh))

\* the same in the fleet: every vehicle left in the fleet by a tick is no faster
\* than the desired speed of the edge it is on
C34_FleetWithinDesired ==
    TickCompleted =>
        \A i \in DOMAIN vehicles :
            0 <= vehicles[i].velocity /\ vehicles[i].velocity <= DesiredSpeed(vehicles[i])


(***************************************************************************)
(* Properties of the capacity of the edges                                 *)
(***************************************************************************)
\* the number of non-arrived vehicles of the fleet vs on the edge edge_id
OnEdge(vs, edge_id) ==
    Cardinality({i \in DOMAIN vs : ~vs[i].arrived /\ CurrentEdgeId(vs[i]) = edge_id})

\* no edge of the network holds more vehicles of vs than its capacity
WithinCapacity(vs) == \A e \in network.edges : OnEdge(vs, e.id) <= e.capacity

\* the fleet as it was when the latest tick began, before its spawn
FleetBeforeTick == SubSeq(fleetHist.entered, 1, fleetHist.size_before)

\* C33: if no edge held more vehicles than its capacity before a tick, none
\* does at its end, the vehicle spawned in the tick included
C33_CapacityKept ==
    (TickCompleted /\ WithinCapacity(FleetBeforeTick)) => WithinCapacity(vehicles)

\* the same for the vehicles that were in the fleet before the tick: what the
\* gate admitted alone never takes an edge beyond its capacity
C33_GateKeepsCapacity ==
    (TickCompleted /\ WithinCapacity(fleetHist.entered)) => WithinCapacity(vehicles)

\* a tick whose spawn put a vehicle on an edge that was full
C33_SpawnedOntoFullEdge ==
    /\ TickCompleted
    /\ fleetHist.spawn.happened
    /\ WithinCapacity(FleetBeforeTick)
    /\ \E e \in network.edges :
          /\ fleetHist.spawn.route[1].id = e.id
          /\ OnEdge(FleetBeforeTick, e.id) = e.capacity
          /\ OnEdge(vehicles, e.id) > e.capacity

(***************************************************************************)
(* C32: no permanent gridlock                                              *)
(***************************************************************************)
InFleet(id) == \E i \in DOMAIN vehicles : vehicles[i].vehicle_id = id
\* the network, patience and signals the claim is about
C32_Setting ==
    /\ \A e \in network.edges : e.speed_limit > 0 /\ e.capacity >= 1
    /\ \A i \in DOMAIN vehicles : vehicles[i].patience > 0
    /\ closed_edges = {}
    /\ signals.present /\ \A p \in Phases : signals.phase_durations[p] > 0

\* C32: on a network with positive speed limits and capacities of at least 1,
\* with positive patience, no closed edge and signals of positive durations,
\* every vehicle of the fleet eventually arrives and is removed
C32_EveryVehicleArrives ==
    \A id \in {RingOrder[k] : k \in DOMAIN RingOrder} :
        (C32_Setting /\ InFleet(id)) ~> ~InFleet(id)

\* a standstill that lasts: every vehicle of a full block is stuck at the exit
\* of its edge, and every edge is in the blocked set the sweep starts with
C32_Gridlocked ==
    /\ fleetHist.ticked
    /\ Len(vehicles) = 4
    /\ \A i \in DOMAIN vehicles : vehicles[i].stuck /\ EdgeRemaining(vehicles[i]) = 0
    /\ fleetHist.blocked_start = {e.id : e \in network.edges}
\* once the block is gridlocked it stays so
C32_GridlockLasts == [][C32_Gridlocked => C32_Gridlocked']_vars
\* fleets of one, two or three vehicles do get round
C32_SmallFleetsArrive == (Len(vehicles) < 4) ~> (vehicles = <<>>)

(***************************************************************************)
(* C35: what a raising callback leaves in the schedule                     *)
(***************************************************************************)
\* the names somewhere in the schedule
Scheduled == UNION {{schedule[t][j] : j \in DOMAIN schedule[t]} : t \in DOMAIN schedule}
\* the names registered, or registered again, since the exception
NamesRegisteredSinceRaise ==
    {registered[i].name : i \in {j \in DOMAIN registered : j > lastAdvance.registered}}
\* every agent registered before the exception was registered once
RegisteredOnceBeforeRaise ==
    \A i, j \in 1..lastAdvance.registered :
        registered[i].name = registered[j].name => i = j

C35_DroppedOrKept ==
    (lastAdvance.raised /\ RegisteredOnceBeforeRaise) =>
        /\ \A j \in lastAdvance.upto..Len(lastAdvance.due) :
              lastAdvance.due[j] \in Scheduled => lastAdvance.due[j] \in NamesRegisteredSinceRaise
        /\ \A j \in 1..(lastAdvance.upto - 1) :
              lastAdvance.due[j] \notin NamesRegisteredSinceRaise =>
                 /\ lastAdvance.at + agents[lastAdvance.due[j]] \in DOMAIN schedule
                 /\ \E n \in DOMAIN schedule[lastAdvance.at + agents[lastAdvance.due[j]]] :
                       schedule[lastAdvance.at + agents[lastAdvance.due[j]]][n]
                          = lastAdvance.due[j]

C35_OnlyScheduledInvoked ==
    \A k \in DOMAIN invocations' :
        k > Len(invocations) =>
           /\ tick \in DOMAIN schedule
           /\ \E n \in DOMAIN schedule[tick] : schedule[tick][n] = invocations'[k].name

MaxPathLen == 3
\* the contiguous paths from a to b of at most MaxPathLen edges without a
\* blocked edge (edge weights are positive, so a path that visits a node twice
\* is never the lightest)
OpenPaths(r, a, b) ==
    LET edges == {r.network.edges[k] : k \in DOMAIN r.network.edges}
    IN {p \in UNION {[1..n -> edges] : n \in 1..MaxPathLen} :
          /\ p[1].from = a
          /\ p[Len(p)].to = b
          /\ \A k \in 1..(Len(p) - 1) : p[k].to = p[k + 1].from
          /\ \A k \in DOMAIN p : p[k].id \notin r.blocked_edges}
RECURSIVE PathWeight(_, _, _)
PathWeight(r, p, k) == IF k > Len(p) THEN 0 ELSE EdgeWeight(r, p[k]) + PathWeight(r, p, k + 1)
PlanCalled == routerHist.op = "plan_route"

\* what plan_route returns is a path, it is empty when start equals destination,
\* and the call raises exactly when there is no path
C36_ReturnsAPath ==
    PlanCalled =>
        IF routerHist.node = routerHist.destination
        THEN routerHist.raised = "" /\ routerHist.returned = <<>>
        ELSE IF OpenPaths(router, routerHist.node, routerHist.destination) = {}
        THEN routerHist.raised = "ValueError"
        ELSE /\ routerHist.raised = ""
             /\ routerHist.returned \in OpenPaths(router, routerHist.node, routerHist.destination)
C36_Lightest ==
    (PlanCalled /\ routerHist.raised = "" /\ routerHist.node # routerHist.destination) =>
        \A p \in OpenPaths(router, routerHist.node, routerHist.destination) :
            PathWeight(router, routerHist.returned, 1) <= PathWeight(router, p, 1)

\* C36: plan_route(start, destination) returns a contiguous path from start to
\* destination without a blocked edge whose weight is minimal among such paths,
\* the empty route when start equals destination, and raises when there is no
\* such path
C36_PlanRoute == C36_ReturnsAPath /\ C36_Lightest

\* without the heuristic (use_a_star false) the returned path is a lightest one
C36_LightestWithoutHeuristic == ~router.use_a_star => C36_Lightest
\* a call that returned a path although a lighter one exists
C36_HeavierReturned ==
    /\ PlanCalled /\ routerHist.raised = ""
    /\ \E p \in OpenPaths(router, routerHist.node, routerHist.destination) :
          PathWeight(router, p, 1) < PathWeight(router, routerHist.returned, 1)
C36_RaisedForNoPath == PlanCalled /\ routerHist.raised = "ValueError"

(***************************************************************************)
(* C37, C38: rerouting and its cooldown                                    *)
(***************************************************************************)
\* the step is a call of update_vehicle_position for a registered vehicle
UpdateStep ==
    /\ routerHist'.calls = routerHist.calls + 1
    /\ routerHist'.op = "update_vehicle_position"
    /\ routerHist'.vehicle_id \in DOMAIN router.vehicles
\* the router as the call sees it once it has stored the current node
Moved == [router EXCEPT !.vehicles[routerHist'.vehicle_id].current_node = routerHist'.node]
MovedState == Moved.vehicles[routerHist'.vehicle_id]
CooldownElapsed(state, t) == t - state.last_reroute >= router.reroute_cooldown
\* some edge of the remaining route is blocked or carries load >= capacity * threshold
BlockedOrCongested(r, state) ==
    \E k \in DOMAIN RemainingRoute(state) :
        \/ RemainingRoute(state)[k].id \in r.blocked_edges
        \/ Get(r.edge_loads, RemainingRoute(state)[k].id, 0) * 100
              >= Max(1, RemainingRoute(state)[k].capacity) * r.congestion_threshold
\* the call stored and returned the route planned from the current node
ReroutedTo(plan) ==
    /\ routerHist'.raised = ""
    /\ routerHist'.returned = plan.route
    /\ router'.vehicles[routerHist'.vehicle_id].route = plan.route
    /\ router'.vehicles[routerHist'.vehicle_id].last_reroute = routerHist'.tick
\* the call returned the stored route and left it, and the loads, as they were
RouteKept ==
    /\ routerHist'.raised = ""
    /\ routerHist'.returned = router.vehicles[routerHist'.vehicle_id].route
    /\ router'.vehicles[routerHist'.vehicle_id].route
          = router.vehicles[routerHist'.vehicle_id].route
    /\ router'.vehicles[routerHist'.vehicle_id].last_reroute
          = router.vehicles[routerHist'.vehicle_id].last_reroute
    /\ router'.edge_loads = router.edge_loads

C37_Step(plan) ==
    UpdateStep =>
        /\ (CooldownElapsed(MovedState, routerHist'.tick) /\ BlockedOrCongested(Moved, MovedState))
              => ReroutedTo(plan)
        /\ ~BlockedOrCongested(Moved, MovedState) => RouteKept

\* C37 as stated: with the cooldown elapsed and an edge of the remaining route
\* blocked or congested, update_vehicle_position stores the route planned from
\* the current node under the current loads, records the tick and returns the
\* new route; with no such edge it returns the stored route unchanged
C37_ReroutesWhenDue ==
    [][C37_Step(PlanRoute(Moved, routerHist'.node, MovedState.destination))]_vars

\* C37 as amended: the same provided a route without blocked edges exists from
\* the current node; when none exists the call raises ValueError and leaves the
\* stored route, the last reroute and the loads as they were
C37_StepWherePlanned ==
    UpdateStep =>
        LET plan == PlanRoute(Moved, routerHist'.node, MovedState.destination)
            due == /\ CooldownElapsed(MovedState, routerHist'.tick)
                   /\ BlockedOrCongested(Moved, MovedState)
        IN /\ (due /\ plan.status = "ok") => ReroutedTo(plan)
           /\ (due /\ plan.status # "ok") =>
                 /\ routerHist'.raised = "ValueError"
                 /\ router' = Moved
           /\ ~BlockedOrCongested(Moved, MovedState) => RouteKept
C37_ReroutesWherePlanned == [][C37_StepWherePlanned]_vars

\* a vehicle whose route ran over a blocked edge has been given another route
C37_Witness ==
    /\ routerHist.op = "update_vehicle_position"
    /\ routerHist.raised = ""
    /\ routerHist.vehicle_id \in DOMAIN router.vehicles
    /\ router.vehicles[routerHist.vehicle_id].last_reroute = routerHist.tick
    /\ router.blocked_edges # {}
    /\ routerHist.returned # <<>>
    /\ routerHist.returned = router.vehicles[routerHist.vehicle_id].route
\* an update that raised because every way on is blocked
C37_NoWayOn ==
    /\ routerHist.op = "update_vehicle_position"
    /\ routerHist.raised = "ValueError"

\* the step is a call of block_edge
BlockStep ==
    /\ routerHist'.calls = routerHist.calls + 1
    /\ routerHist'.op = "block_edge"
\* vehicle v is registered and the tick of the call is inside its cooldown
InsideWindow(v, t) ==
    /\ v \in DOMAIN router.vehicles
    /\ t - router.vehicles[v].last_reroute < router.reroute_cooldown
\* the call left the stored route and the last reroute of v as they were
RouteOfKept(v) ==
    /\ v \in DOMAIN router'.vehicles
    /\ router'.vehicles[v].route = router.vehicles[v].route
    /\ router'.vehicles[v].last_reroute = router.vehicles[v].last_reroute
\* the route of v runs over the edge
RunsOver(v, edge_id) ==
    \E k \in DOMAIN router.vehicles[v].route : router.vehicles[v].route[k].id = edge_id

\* C38 as stated: while tick - last_reroute < reroute_cooldown,
\* update_vehicle_position and block_edge leave the vehicle's stored route and
\* all edge loads unchanged
C38_StepAsStated ==
    /\ (UpdateStep /\ InsideWindow(routerHist'.vehicle_id, routerHist'.tick)) =>
          /\ RouteOfKept(routerHist'.vehicle_id)
          /\ router'.edge_loads = router.edge_loads
    /\ BlockStep => \A v \in RouterVehicleIds :
          InsideWindow(v, routerHist'.tick) =>
             /\ RouteOfKept(v)
             /\ router'.edge_loads = router.edge_loads
C38_NothingMovesInCooldown == [][C38_StepAsStated]_vars

\* C38 as amended: inside the window both calls leave the vehicle's stored route
\* and last reroute unchanged; update_vehicle_position leaves all edge loads
\* unchanged, and so does block_edge unless a vehicle whose route runs over the
\* blocked edge is outside its own window
C38_StepOwnRoute ==
    /\ (UpdateStep /\ InsideWindow(routerHist'.vehicle_id, routerHist'.tick)) =>
          /\ RouteOfKept(routerHist'.vehicle_id)
          /\ router'.edge_loads = router.edge_loads
    /\ BlockStep =>
          /\ \A v \in RouterVehicleIds : InsideWindow(v, routerHist'.tick) => RouteOfKept(v)
          /\ (\A v \in DOMAIN router.vehicles :
                 RunsOver(v, routerHist'.edge_id) => InsideWindow(v, routerHist'.tick))
                => router'.edge_loads = router.edge_loads
C38_OwnRouteKeptInCooldown == [][C38_StepOwnRoute]_vars

\* an edge was blocked under a vehicle inside its cooldown, whose route still
\* runs over it
C38_Witness ==
    /\ routerHist.op = "block_edge"
    /\ \E v \in DOMAIN router.vehicles :
          /\ RunsOver(v, routerHist.edge_id)
          /\ routerHist.tick - router.vehicles[v].last_reroute < router.reroute_cooldown
\* a vehicle rerouted at the first tick at which the difference reaches the cooldown
C38_ReroutedWhenReached ==
    /\ routerHist.op = "update_vehicle_position"
    /\ router.reroute_cooldown > 0
    /\ routerHist.vehicle_id \in DOMAIN router.vehicles
    /\ router.vehicles[routerHist.vehicle_id].last_reroute = routerHist.tick
    /\ routerHist.tick = router.reroute_cooldown
\* block_edge changed the loads while a registered vehicle was inside its cooldown
C38_OtherVehicleRerouted ==
    /\ routerHist.op = "block_edge"
    /\ \E v, w \in DOMAIN router.vehicles :
          /\ routerHist.tick - router.vehicles[v].last_reroute < router.reroute_cooldown
          /\ router.vehicles[w].last_reroute = routerHist.tick
          /\ v # w

(***************************************************************************)
(* C39: load accounting                                                    *)
(***************************************************************************)
NetworkEdgeIds(r) == {r.network.edges[k].id : k \in DOMAIN r.network.edges}
\* the registered vehicles of router r whose stored route contains the edge
RoutedOver(r, edge_id) ==
    {v \in DOMAIN r.vehicles :
        \E k \in DOMAIN r.vehicles[v].route : r.vehicles[v].route[k].id = edge_id}
LoadsCountRoutes(r) ==
    \A e \in NetworkEdgeIds(r) :
        /\ Get(r.edge_loads, e, 0) = Cardinality(RoutedOver(r, e))
        /\ Get(r.edge_loads, e, 0) >= 0

\* C39: after any sequence of register_vehicle, mark_edge_complete,
\* update_vehicle_position, block_edge and release_vehicle the load of every
\* edge is the number of registered vehicles whose stored route contains it,
\* and is never negative
C39_LoadsCountRoutes == LoadsCountRoutes(router)

\* the step registers a vehicle id that is registered already
ReRegisterStep ==
    /\ routerHist'.calls = routerHist.calls + 1
    /\ routerHist'.op = "register_vehicle"
    /\ routerHist'.vehicle_id \in DOMAIN router.vehicles
\* every other step keeps the accounting
C39_KeptByOtherSteps ==
    [][(LoadsCountRoutes(router) /\ ~ReRegisterStep) => LoadsCountRoutes(router')]_vars
\* completing the first edge of a route lowers its load by one, and releasing a
\* vehicle lowers by one the load of every edge still in its route
C39_CompleteAndRelease ==
    [][/\ (/\ routerHist'.calls = routerHist.calls + 1
           /\ routerHist'.op = "mark_edge_complete"
           /\ routerHist'.vehicle_id \in DOMAIN router.vehicles
           /\ router.vehicles[routerHist'.vehicle_id].route # <<>>
           /\ router.vehicles[routerHist'.vehicle_id].route[1].id = routerHist'.edge_id
           /\ Get(router.edge_loads, routerHist'.edge_id, 0) > 0)
          => Get(router'.edge_loads, routerHist'.edge_id, 0)
                = Get(router.edge_loads, routerHist'.edge_id, 0) - 1
       /\ (/\ routerHist'.calls = routerHist.calls + 1
           /\ routerHist'.op = "release_vehicle"
           /\ routerHist'.vehicle_id \in DOMAIN router.vehicles
           /\ LoadsCountRoutes(router))
          => \A e \in NetworkEdgeIds(router) :
                Get(router'.edge_loads, e, 0)
                   = Get(router.edge_loads, e, 0)
                     - (IF routerHist'.vehicle_id \in RoutedOver(router, e) THEN 1 ELSE 0)
      ]_vars
\* an edge carries load although no registered vehicle's route contains it
C39_PhantomLoad ==
    \E e \in NetworkEdgeIds(router) :
        Get(router.edge_loads, e, 0) > 0 /\ RoutedOver(router, e) = {}

(***************************************************************************)
(* C40: signal timings and presets                                         *)
(***************************************************************************)
\* the controller's phase durations after the step are d
DurationsBecome(d) ==
    /\ DOMAIN signals'.phase_durations = Phases
    /\ \A p \in Phases : signals'.phase_durations[p] = d[p]

\* a call of update_signal_timings returns without raising and clears the
\* active preset
C40_TimingsStep ==
    \A t \in Callers :
        SimulationRuntime_update_signal_timings(t) =>
            /\ runtime'.returned[t].raised = "none"
            /\ runtime'.active_preset = NoPreset

\* a call of apply_preset with a known preset returns without raising, and the
\* spawn interval, the phase durations and the active preset are the preset's
C40_PresetStep ==
    \A t \in Callers, name \in DOMAIN Presets :
        SimulationRuntime_apply_preset(t, name) =>
            /\ runtime'.returned[t].raised = "none"
            /\ spawner'.spawn_interval = Max(Presets[name].spawn_interval, 1)
            /\ DurationsBecome(Presets[name].signal_timings)
            /\ runtime'.active_preset = name

\* C40: update_signal_timings(ns, ew) and apply_preset(name) with a known
\* preset complete without raising, leave the phase durations at the values
\* asked for, and clear (respectively set) active_preset together with the
\* other settings of the operation, never only part of them.
C40_SettingsAppliedTogether == [][C40_TimingsStep /\ C40_PresetStep]_vars

\* what the code does: either operation ends in AttributeError, the phase
\* durations stay as they were and no preset ever becomes active
C40_RaisesStep ==
    /\ \A t \in Callers :
          SimulationRuntime_update_signal_timings(t) =>
              /\ runtime'.returned[t].raised = "AttributeError"
              /\ UNCHANGED <<signals, spawner>>
              /\ runtime'.active_preset = runtime.active_preset
    /\ \A t \in Callers, name \in DOMAIN Presets :
          SimulationRuntime_apply_preset(t, name) =>
              /\ runtime'.returned[t].raised = "AttributeError"
              /\ UNCHANGED signals
              /\ runtime'.active_preset = runtime.active_preset
C40_AlwaysRaises == [][C40_RaisesStep]_vars /\ [](runtime.active_preset = NoPreset)

\* a preset was applied in part: its spawn interval is in force, the call
\* raised, and no preset is active
C40_PresetAppliedInPart ==
    \E t \in Callers :
        /\ runtime.returned[t].op = "apply_preset"
        /\ runtime.returned[t].raised = "AttributeError"
        /\ spawner.spawn_interval = Presets["Sunday Morning"].spawn_interval
        /\ runtime.active_preset = NoPreset

\* update_signal_timings has raised
C40_TimingsRaised ==
    \E t \in Callers :
        /\ runtime.returned[t].op = "update_signal_timings"
        /\ runtime.returned[t].raised = "AttributeError"

====
